---- MODULE Spec2Model ----
(***************************************************************************)
(* reltools: SQL DDL -> raw parsed dict -> typed AST -> structural mapping  *)
(* -> schema validator.                                                     *)
(*                                                                           *)
(* Python values are tagged records [kind, val]:                             *)
(*   NoneV, IntV, BoolV(b), Str(s), Lst(<<...>>), Dct([key |-> value, ...]). *)
(* A dict is a function from its keys (strings) to values; an absent key is  *)
(* a key outside DOMAIN.  Strings are TLA+ strings, read character by        *)
(* character with SubSeq.                                                    *)
(***************************************************************************)
EXTENDS Integers, Sequences, FiniteSets, TLC

VARIABLES
    schema,         \* validate_schema: the argument
    pc,             \* position: "start", "pass1", "pass2", "done"; "failed": build raised
    idx,            \* index (1-based) of the table the current pass is at
    table_names,    \* validate_schema: table_names
    table_columns,  \* validate_schema: table_columns
    result,         \* what the call returned or raised
    phase,          \* 1: validating the raw record, 2: validating its round trip,
                    \* 0: running the pipeline from SQL, 3: a call of a function of
                    \* the parser, 4: validating the raw record with its tables
                    \* in another order
    raw,            \* the raw record the run started from
    first_result,   \* the result of phase 1
    statements,     \* parse_sql_string: what sqlparse.parse returned
    stmt_no,        \* parse_sql_string: index (1-based) of the statement the loop is at
    parsed_tables,  \* parse_sql_string: tables
    call,           \* a function of the parser called on its own: [fn, arg, decl]
    frame,          \* _parse_create_table: table_name and paren_match
    returned        \* what the function called on its own returned

sqlvars == <<statements, stmt_no, parsed_tables>>
unitvars == <<call, frame, returned>>
vars == <<schema, pc, idx, table_names, table_columns, result, phase, raw, first_result,
          statements, stmt_no, parsed_tables, call, frame, returned>>

-----------------------------------------------------------------------------
(* Python values *)

NoneV == [kind |-> "none", val |-> 0]
IntV == [kind |-> "int", val |-> 5]
BoolV(b) == [kind |-> "bool", val |-> b]
Str(s) == [kind |-> "str", val |-> s]
Lst(q) == [kind |-> "list", val |-> q]
Dct(f) == [kind |-> "dict", val |-> f]
EmptyDict == Dct(<<>>)

IsStr(v) == v.kind = "str"
IsList(v) == v.kind = "list"
IsDict(v) == v.kind = "dict"
Has(d, key) == key \in DOMAIN d.val
Get(d, key) == d.val[key]
\* bool(v)
Truthy(v) ==
    CASE v.kind = "none" -> FALSE
      [] v.kind = "int" -> v.val # 0
      [] v.kind = "bool" -> v.val
      [] v.kind = "str" -> v.val # ""
      [] v.kind = "list" -> Len(v.val) > 0
      [] v.kind = "dict" -> DOMAIN v.val # {}
\* hash(v) is defined
Hashable(v) == v.kind \notin {"list", "dict"}

\* del d[key]
Without(d, key) == Dct([k \in DOMAIN d.val \ {key} |-> d.val[k]])
\* d[key] = value
With(d, key, value) ==
    Dct([k \in DOMAIN d.val \cup {key} |-> IF k = key THEN value ELSE d.val[k]])

Range(q) == {q[n] : n \in 1..Len(q)}

-----------------------------------------------------------------------------
(* Outcomes of a call *)

Outcome(ret, exc, msg, at, tbl, pos) ==
    [ret |-> ret, exc |-> exc, msg |-> msg, at |-> at, tbl |-> tbl, pos |-> pos]
NoError == Outcome("ok", "", "", "", 0, 0)
Pending == Outcome("pending", "", "", "", 0, 0)
ReturnTrue == Outcome("True", "", "", "", 0, 0)
\* raise exc(msg), as the traceback shows it: at is the statement that raised,
\* tbl the index of the table and pos the index of the column, primary-key
\* entry or foreign key it was working on (0-based, -1: none)
Raise(exc, msg, at, tbl, pos) == Outcome("raise", exc, msg, at, tbl, pos)
SchemaValidationError(msg, at, tbl, pos) == Raise("SchemaValidationError", msg, at, tbl, pos)
TypeError(at, tbl, pos) == Raise("TypeError", "unhashable type: 'list'", at, tbl, pos)
IsError(e) == e.ret = "raise"

-----------------------------------------------------------------------------
(* utils/validators.py *)

\* x in s, for a set s of strings: hashes x first
InSet(x, s) == IsStr(x) /\ x.val \in s

_validate_column(column, tbl, index) ==
    IF ~IsDict(column)
    THEN SchemaValidationError("Column at index {index} in table '{table_name}' must be a dictionary", "column", tbl, index)
    ELSE IF ~Has(column, "name")
    THEN SchemaValidationError("Column at index {index} in table '{table_name}' must have 'name' field", "column", tbl, index)
    ELSE IF ~Has(column, "type")
    THEN SchemaValidationError("Column '{name}' in table '{table_name}' must have 'type' field", "column", tbl, index)
    ELSE IF ~IsStr(Get(column, "name")) \/ ~Truthy(Get(column, "name"))
    THEN SchemaValidationError("Column name at index {index} in table '{table_name}' must be a non-empty string", "column", tbl, index)
    ELSE IF ~IsStr(Get(column, "type")) \/ ~Truthy(Get(column, "type"))
    THEN SchemaValidationError("Column '{name}' type in table '{table_name}' must be a non-empty string", "column", tbl, index)
    ELSE IF Has(column, "constraints") /\ Get(column, "constraints").kind # "none"
            /\ ~IsStr(Get(column, "constraints"))
    THEN SchemaValidationError("Column '{name}' constraints in table '{table_name}' must be a string", "column", tbl, index)
    ELSE NoError

\* a column loop that remembers the previous column's name only
RECURSIVE ColumnLoopAdjacentOnly(_, _, _, _)
ColumnLoopAdjacentOnly(columns, tbl, col_idx, column_names) ==
    IF col_idx >= Len(columns) THEN NoError
    ELSE LET column == columns[col_idx + 1]
             e == _validate_column(column, tbl, col_idx)
         IN IF IsError(e) THEN e
            ELSE IF Get(column, "name").val \in column_names
            THEN SchemaValidationError("Duplicate column name '{name}' in table '{table_name}'", "duplicate", tbl, col_idx)
            ELSE ColumnLoopAdjacentOnly(columns, tbl, col_idx + 1, {Get(column, "name").val})

\* the loop over enumerate(columns) of _validate_table, from col_idx on
\* (0-based), column_names being the names seen so far
RECURSIVE ColumnLoop(_, _, _, _)
ColumnLoop(columns, tbl, col_idx, column_names) ==
    IF col_idx >= Len(columns) THEN NoError
    ELSE LET column == columns[col_idx + 1]
             e == _validate_column(column, tbl, col_idx)
         IN IF IsError(e) THEN e
            ELSE IF Get(column, "name").val \in column_names
            THEN SchemaValidationError("Duplicate column name '{name}' in table '{table_name}'", "duplicate", tbl, col_idx)
            ELSE ColumnLoop(columns, tbl, col_idx + 1, column_names \cup {Get(column, "name").val})

\* a primary-key loop that looks at the entry it starts from only
PrimaryKeyLoopFirstOnly(primary_key, tbl, n, column_names) ==
    IF n >= Len(primary_key) THEN NoError
    ELSE LET pk_col == primary_key[n + 1]
         IN IF ~Hashable(pk_col) THEN TypeError("primary_key", tbl, n)
            ELSE IF ~InSet(pk_col, column_names)
            THEN SchemaValidationError("Primary key column '{pk_col}' not found in table '{table_name}'", "primary_key", tbl, n)
            ELSE NoError

\* the loop over primary_key of _validate_table, from entry n on (0-based)
RECURSIVE PrimaryKeyLoop(_, _, _, _)
PrimaryKeyLoop(primary_key, tbl, n, column_names) ==
    IF n >= Len(primary_key) THEN NoError
    ELSE LET pk_col == primary_key[n + 1]
         IN IF ~Hashable(pk_col) THEN TypeError("primary_key", tbl, n)
            ELSE IF ~InSet(pk_col, column_names)
            THEN SchemaValidationError("Primary key column '{pk_col}' not found in table '{table_name}'", "primary_key", tbl, n)
            ELSE PrimaryKeyLoop(primary_key, tbl, n + 1, column_names)

\* {col['name'] for col in table['columns']} of a table whose columns passed
ColumnNameSet(table) ==
    {Get(Get(table, "columns").val[n], "name").val : n \in 1..Len(Get(table, "columns").val)}

_validate_table(table, index) ==
    IF ~IsDict(table)
    THEN SchemaValidationError("Table at index {index} must be a dictionary", "table", index, -1)
    ELSE IF ~Has(table, "name")
    THEN SchemaValidationError("Table at index {index} must have 'name' field", "table", index, -1)
    ELSE IF ~Has(table, "columns")
    THEN SchemaValidationError("Table '{name}' must have 'columns' field", "table", index, -1)
    ELSE IF ~Has(table, "primary_key")
    THEN SchemaValidationError("Table '{name}' must have 'primary_key' field", "table", index, -1)
    ELSE IF ~IsStr(Get(table, "name")) \/ ~Truthy(Get(table, "name"))
    THEN SchemaValidationError("Table name at index {index} must be a non-empty string", "table", index, -1)
    ELSE IF ~IsList(Get(table, "columns"))
    THEN SchemaValidationError("Table '{name}' columns must be a list", "table", index, -1)
    ELSE IF ~Truthy(Get(table, "columns"))
    THEN SchemaValidationError("Table '{name}' must have at least one column", "table", index, -1)
    ELSE LET e == ColumnLoop(Get(table, "columns").val, index, 0, {})
         IN IF IsError(e) THEN e
            ELSE IF ~IsList(Get(table, "primary_key"))
            THEN SchemaValidationError("Table '{name}' primary_key must be a list", "table", index, -1)
            ELSE PrimaryKeyLoop(Get(table, "primary_key").val, index, 0, ColumnNameSet(table))

\* a for loop "for col in cols: if col not in names: raise": the first entry
\* that is unhashable or not in names, 0 when there is none
RECURSIVE FirstNotIn(_, _, _)
FirstNotIn(cols, names, n) ==
    IF n > Len(cols) THEN 0
    ELSE IF ~Hashable(cols[n]) \/ ~InSet(cols[n], names) THEN n
    ELSE FirstNotIn(cols, names, n + 1)

\* the first of required_fields that fk lacks, "" when it has them all
MissingField(fk) ==
    IF ~Has(fk, "name") THEN "name"
    ELSE IF ~Has(fk, "columns") THEN "columns"
    ELSE IF ~Has(fk, "ref_table") THEN "ref_table"
    ELSE IF ~Has(fk, "ref_columns") THEN "ref_columns"
    ELSE ""

\* reference checks that take a table validate_schema has not seen on trust
ReferenceChecksKnownTablesOnly(fk, tbl, index, names, columns) ==
    IF ~IsList(Get(fk, "ref_columns")) \/ ~Truthy(Get(fk, "ref_columns"))
    THEN SchemaValidationError("Foreign key '{name}' ref_columns in table '{table_name}' must be a non-empty list", "foreign_key", tbl, index)
    ELSE IF Get(fk, "ref_table").val \notin names THEN NoError
    ELSE LET badref == FirstNotIn(Get(fk, "ref_columns").val, columns[Get(fk, "ref_table").val], 1)
         IN
    IF badref # 0
    THEN IF ~Hashable(Get(fk, "ref_columns").val[badref]) THEN TypeError("foreign_key", tbl, index)
         ELSE SchemaValidationError("Foreign key '{name}' in table '{table_name}' references non-existent column '{col}' in table '{ref_table}'", "foreign_key", tbl, index)
    ELSE NoError

\* lines 245-263 of _validate_foreign_key, for a ref_table that is a non-empty
\* string: the table exists, ref_columns is a non-empty list, its columns exist
ReferenceChecks(fk, tbl, index, names, columns) ==
    IF Get(fk, "ref_table").val \notin names
    THEN SchemaValidationError("Foreign key '{name}' in table '{table_name}' references non-existent table '{ref_table}'", "foreign_key", tbl, index)
    ELSE IF ~IsList(Get(fk, "ref_columns")) \/ ~Truthy(Get(fk, "ref_columns"))
    THEN SchemaValidationError("Foreign key '{name}' ref_columns in table '{table_name}' must be a non-empty list", "foreign_key", tbl, index)
    ELSE LET badref == FirstNotIn(Get(fk, "ref_columns").val, columns[Get(fk, "ref_table").val], 1)
         IN
    IF badref # 0
    THEN IF ~Hashable(Get(fk, "ref_columns").val[badref]) THEN TypeError("foreign_key", tbl, index)
         ELSE SchemaValidationError("Foreign key '{name}' in table '{table_name}' references non-existent column '{col}' in table '{ref_table}'", "foreign_key", tbl, index)
    ELSE NoError

\* an arity check that lets a key through with more ref_columns than columns
ArityCheckAtLeast(fk, tbl, index) ==
    IF Len(Get(fk, "columns").val) > Len(Get(fk, "ref_columns").val)
    THEN SchemaValidationError("Foreign key '{name}' in table '{table_name}' has mismatched column counts: {n} columns but {m} ref_columns", "foreign_key", tbl, index)
    ELSE NoError

\* lines 266-270 of _validate_foreign_key: len(columns) against len(ref_columns)
ArityCheck(fk, tbl, index) ==
    IF Len(Get(fk, "columns").val) # Len(Get(fk, "ref_columns").val)
    THEN SchemaValidationError("Foreign key '{name}' in table '{table_name}' has mismatched column counts: {n} columns but {m} ref_columns", "foreign_key", tbl, index)
    ELSE NoError

_validate_foreign_key(fk, table, index, tbl, names, columns) ==
    LET table_name == Get(table, "name").val
    IN
    IF ~IsDict(fk)
    THEN SchemaValidationError("Foreign key at index {index} in table '{table_name}' must be a dictionary", "foreign_key", tbl, index)
    ELSE IF MissingField(fk) # ""
    THEN SchemaValidationError("Foreign key at index {index} in table '{table_name}' must have '{field}' field", "foreign_key", tbl, index)
    ELSE IF ~IsStr(Get(fk, "name")) \/ ~Truthy(Get(fk, "name"))
    THEN SchemaValidationError("Foreign key name at index {index} in table '{table_name}' must be a non-empty string", "foreign_key", tbl, index)
    ELSE IF ~IsList(Get(fk, "columns")) \/ ~Truthy(Get(fk, "columns"))
    THEN SchemaValidationError("Foreign key '{name}' columns in table '{table_name}' must be a non-empty list", "foreign_key", tbl, index)
    ELSE LET bad == FirstNotIn(Get(fk, "columns").val, columns[table_name], 1)
         IN
    IF bad # 0
    THEN IF ~Hashable(Get(fk, "columns").val[bad]) THEN TypeError("foreign_key", tbl, index)
         ELSE SchemaValidationError("Foreign key '{name}' references non-existent column '{col}' in table '{table_name}'", "foreign_key", tbl, index)
    ELSE IF ~IsStr(Get(fk, "ref_table")) \/ ~Truthy(Get(fk, "ref_table"))
    THEN SchemaValidationError("Foreign key '{name}' ref_table in table '{table_name}' must be a non-empty string", "foreign_key", tbl, index)
    ELSE LET e == ReferenceChecks(fk, tbl, index, names, columns)
         IN IF IsError(e) THEN e ELSE ArityCheck(fk, tbl, index)

\* the loop over enumerate(foreign_keys) of _validate_foreign_keys, from fk_idx on
RECURSIVE ForeignKeyLoop(_, _, _, _, _, _)
ForeignKeyLoop(foreign_keys, table, tbl, fk_idx, names, columns) ==
    IF fk_idx >= Len(foreign_keys) THEN NoError
    ELSE LET e == _validate_foreign_key(foreign_keys[fk_idx + 1], table, fk_idx, tbl, names, columns)
         IN IF IsError(e) THEN e
            ELSE ForeignKeyLoop(foreign_keys, table, tbl, fk_idx + 1, names, columns)

_validate_foreign_keys(table, tbl, names, columns) ==
    IF ~Has(table, "foreign_keys") THEN NoError
    ELSE IF ~IsList(Get(table, "foreign_keys"))
    THEN SchemaValidationError("Table '{name}' foreign_keys must be a list", "foreign_keys", tbl, -1)
    ELSE ForeignKeyLoop(Get(table, "foreign_keys").val, table, tbl, 0, names, columns)

-----------------------------------------------------------------------------
(* models/schema.py: the dataclasses; a field holds whatever value it is given *)

Column(name, type, constraints) ==
    [cls |-> "Column", name |-> name, type |-> type, constraints |-> constraints]
ForeignKey(name, columns, ref_table, ref_columns) ==
    [cls |-> "ForeignKey", name |-> name, columns |-> columns, ref_table |-> ref_table,
     ref_columns |-> ref_columns]
Table(name, columns, primary_key, foreign_keys) ==
    [cls |-> "Table", name |-> name, columns |-> columns, primary_key |-> primary_key,
     foreign_keys |-> foreign_keys]
Schema(tables) == [cls |-> "Schema", tables |-> tables]

-----------------------------------------------------------------------------
(* parsers/ast_builder.py *)

KeyError(key, tbl, pos) == Raise("KeyError", key, "build", tbl, pos)
AttributeError(tbl, pos) == Raise("AttributeError", "object has no attribute 'get'", "build", tbl, pos)
NotSubscriptable(tbl, pos) == Raise("TypeError", "not subscriptable by a string", "build", tbl, pos)
NotIterable(tbl, pos) == Raise("TypeError", "object is not iterable", "build", tbl, pos)

\* d.get(key, []) of a dict d
GetOrEmpty(d, key) == IF Has(d, key) THEN Get(d, key) ELSE Lst(<<>>)

\* "for x in v": the items the loop sees (the characters of a string, the keys
\* of a dict), when v can be iterated at all
CanIterate(v) == v.kind \in {"list", "str", "dict"}
Items(v) ==
    CASE v.kind = "list" -> v.val
      [] v.kind = "str" -> [n \in 1..Len(v.val) |-> Str(SubSeq(v.val, n, n))]
      [] v.kind = "dict" -> IF DOMAIN v.val = {} THEN <<>> ELSE <<Str("key")>>
      [] OTHER -> <<>>

\* the first error of errs, NoError when there is none
FirstError(errs) ==
    LET bad == {n \in 1..Len(errs) : IsError(errs[n])}
    IN IF bad = {} THEN NoError ELSE errs[CHOOSE n \in bad : \A m \in bad : n <= m]

\* what the subscripts item[key1], item[key2], ... raise, in that order
Subscripts(item, keys, tbl, pos) ==
    IF ~IsDict(item) THEN NotSubscriptable(tbl, pos)
    ELSE FirstError([n \in 1..Len(keys) |->
                       IF Has(item, keys[n]) THEN NoError ELSE KeyError(keys[n], tbl, pos)])

_build_table(table_dict, tbl) ==
    IF ~IsDict(table_dict) THEN [err |-> AttributeError(tbl, -1), value |-> <<>>]
    ELSE
    LET cols == GetOrEmpty(table_dict, "columns")
        fks == GetOrEmpty(table_dict, "foreign_keys")
        col_err == IF ~CanIterate(cols) THEN NotIterable(tbl, -1)
                   ELSE FirstError([n \in 1..Len(Items(cols)) |->
                            Subscripts(Items(cols)[n], <<"name", "type">>, tbl, n - 1)])
        fk_err == IF ~CanIterate(fks) THEN NotIterable(tbl, -1)
                  ELSE FirstError([n \in 1..Len(Items(fks)) |->
                            Subscripts(Items(fks)[n], <<"name", "columns", "ref_table", "ref_columns">>,
                                       tbl, n - 1)])
    IN
    IF IsError(col_err) THEN [err |-> col_err, value |-> <<>>]
    ELSE IF IsError(fk_err) THEN [err |-> fk_err, value |-> <<>>]
    ELSE IF ~Has(table_dict, "name") THEN [err |-> KeyError("name", tbl, -1), value |-> <<>>]
    ELSE [err |-> NoError,
          value |-> Table(Get(table_dict, "name"),
                          [n \in 1..Len(Items(cols)) |->
                              LET col_dict == Items(cols)[n]
                              IN Column(Get(col_dict, "name"), Get(col_dict, "type"),
                                        IF Has(col_dict, "constraints")
                                        THEN Get(col_dict, "constraints") ELSE NoneV)],
                          GetOrEmpty(table_dict, "primary_key"),
                          [n \in 1..Len(Items(fks)) |->
                              LET fk_dict == Items(fks)[n]
                              IN ForeignKey(Get(fk_dict, "name"), Get(fk_dict, "columns"),
                                            Get(fk_dict, "ref_table"), Get(fk_dict, "ref_columns"))])]

build(parsed_sql) ==
    IF ~IsDict(parsed_sql) THEN [err |-> AttributeError(-1, -1), value |-> <<>>]
    ELSE
    LET tables == GetOrEmpty(parsed_sql, "tables")
        built == [n \in 1..Len(Items(tables)) |-> _build_table(Items(tables)[n], n - 1)]
        e == IF ~CanIterate(tables) THEN NotIterable(-1, -1)
             ELSE FirstError([n \in 1..Len(built) |-> built[n].err])
    IN IF IsError(e) THEN [err |-> e, value |-> <<>>]
       ELSE [err |-> NoError, value |-> Schema([n \in 1..Len(built) |-> built[n].value])]

-----------------------------------------------------------------------------
(* converters/yaml_converter.py *)

\* a serializer that leaves an empty primary_key out, as it does foreign_keys
TableToDictOmitsEmptyPrimaryKey(table) ==
    LET columns == [n \in 1..Len(table.columns) |->
                      LET col == table.columns[n]
                          col_dict == Dct([name |-> col.name, type |-> col.type])
                      IN IF Truthy(col.constraints)
                         THEN With(col_dict, "constraints", col.constraints)
                         ELSE col_dict]
        table_dict == Dct([name |-> table.name, columns |-> Lst(columns)])
    IN IF Truthy(table.primary_key)
       THEN With(table_dict, "primary_key", table.primary_key)
       ELSE table_dict

\* a serializer that emits foreign_keys also when the table has none
TableToDictEmitsEmptyForeignKeys(table) ==
    LET columns == [n \in 1..Len(table.columns) |->
                      LET col == table.columns[n]
                          col_dict == Dct([name |-> col.name, type |-> col.type])
                      IN IF Truthy(col.constraints)
                         THEN With(col_dict, "constraints", col.constraints)
                         ELSE col_dict]
    IN Dct([name |-> table.name, columns |-> Lst(columns), primary_key |-> table.primary_key,
            foreign_keys |-> Lst([n \in 1..Len(table.foreign_keys) |->
                        LET fk == table.foreign_keys[n]
                        IN Dct([name |-> fk.name, columns |-> fk.columns,
                                ref_table |-> fk.ref_table, ref_columns |-> fk.ref_columns])])])

table_to_dict(table) ==
    LET columns == [n \in 1..Len(table.columns) |->
                      LET col == table.columns[n]
                          col_dict == Dct([name |-> col.name, type |-> col.type])
                      IN IF Truthy(col.constraints)
                         THEN With(col_dict, "constraints", col.constraints)
                         ELSE col_dict]
        table_dict == Dct([name |-> table.name, columns |-> Lst(columns),
                           primary_key |-> table.primary_key])
    IN IF Len(table.foreign_keys) > 0
       THEN With(table_dict, "foreign_keys",
                 Lst([n \in 1..Len(table.foreign_keys) |->
                        LET fk == table.foreign_keys[n]
                        IN Dct([name |-> fk.name, columns |-> fk.columns,
                                ref_table |-> fk.ref_table, ref_columns |-> fk.ref_columns])]))
       ELSE table_dict

\* a serializer that emits the tables last first
SchemaToDictReversed(s) ==
    Dct([tables |-> Lst([n \in 1..Len(s.tables) |->
                            table_to_dict(s.tables[Len(s.tables) + 1 - n])])])

schema_to_dict(s) ==
    Dct([tables |-> Lst([n \in 1..Len(s.tables) |-> table_to_dict(s.tables[n])])])

-----------------------------------------------------------------------------
(* parsers/sql_parser.py: strings are TLA+ strings, read character by         *)
(* character; each regular expression is an operator that matches as re does  *)

Ch(s, i) == SubSeq(s, i, i)
From(s, i) == SubSeq(s, i, Len(s))

\* \s of re and the separators of str.split() and str.strip()
Whitespace == {" ", "\t", "\n", "\r", "\f"}
IsSpace(c) == c \in Whitespace

LowerCase == "abcdefghijklmnopqrstuvwxyz"
UpperCase == "ABCDEFGHIJKLMNOPQRSTUVWXYZ"
UpperOf ==
    [c \in {Ch(LowerCase, i) : i \in 1..Len(LowerCase)} |->
        Ch(UpperCase, CHOOSE i \in 1..Len(LowerCase) : Ch(LowerCase, i) = c)]
UpperChar(c) == IF c \in DOMAIN UpperOf THEN UpperOf[c] ELSE c
IsLetter(c) == UpperChar(c) \in {UpperOf[d] : d \in DOMAIN UpperOf}

\* str.upper()
RECURSIVE upper(_)
upper(s) == IF s = "" THEN "" ELSE UpperChar(Ch(s, 1)) \o upper(From(s, 2))

\* the least and the greatest member of a set of indices, none when it is empty
MinOr(S, none) == IF S = {} THEN none ELSE CHOOSE i \in S : \A j \in S : i <= j
MaxOr(S, none) == IF S = {} THEN none ELSE CHOOSE i \in S : \A j \in S : i >= j

\* the first index >= i of s that holds a character of the set cs, Len(s) + 1
\* when there is none
Find(s, i, cs) == MinOr({j \in i..Len(s) : Ch(s, j) \in cs}, Len(s) + 1)

\* the last index <= i of s that holds a character of the set cs, 0 when none
FindLast(s, i, cs) == MaxOr({j \in 1..i : Ch(s, j) \in cs}, 0)

\* the first index >= i of s that holds no whitespace, Len(s) + 1 when none
SkipSpaces(s, i) == MinOr({j \in i..Len(s) : ~IsSpace(Ch(s, j))}, Len(s) + 1)

\* str.strip(chars): from the first to the last character that is not in cs
Span(s, at) == SubSeq(s, MinOr(at, 1), MaxOr(at, 0))
StripChars(s, cs) == Span(s, {j \in 1..Len(s) : Ch(s, j) \notin cs})
strip(s) == StripChars(s, Whitespace)
\* the characters of .strip('`"[]'); a TLA+ string cannot hold the backtick,
\* which no input of this model contains
QuoteChars == {"\"", "[", "]"}
StripQuotes(s) == StripChars(s, QuoteChars)

\* str.split(',')
RECURSIVE SplitComma(_)
SplitCommaAt(s, c) ==
    IF c > Len(s) THEN <<s>>
    ELSE <<SubSeq(s, 1, c - 1)>> \o SplitComma(From(s, c + 1))
SplitComma(s) == SplitCommaAt(s, Find(s, 1, {","}))

\* sep.join(q)
RECURSIVE Join(_, _)
Join(q, sep) ==
    IF Len(q) = 0 THEN ""
    ELSE IF Len(q) = 1 THEN q[1]
    ELSE q[1] \o sep \o Join(Tail(q), sep)

\* [col.strip().strip('`"[]') for col in group.split(',')]
StripEach(pieces) == [n \in 1..Len(pieces) |-> StripQuotes(strip(pieces[n]))]
ColumnList(group) == StripEach(SplitComma(group))

\* a literal of a pattern under re.IGNORECASE, at index i of s
WordAt(s, i, word) ==
    /\ i >= 1
    /\ i + Len(word) - 1 <= Len(s)
    /\ \A k \in 1..Len(word) : UpperChar(Ch(s, i + k - 1)) = Ch(word, k)

\* W1\s+W2 at index i of s: the index after the match, 0 when there is none
SecondWordAt(s, j, k, w2) == IF k > j /\ WordAt(s, k, w2) THEN k + Len(w2) ELSE 0
TwoWordsAt(s, i, w1, w2) ==
    IF ~WordAt(s, i, w1) THEN 0
    ELSE SecondWordAt(s, i + Len(w1), SkipSpaces(s, i + Len(w1)), w2)

NoMatch == [ok |-> FALSE, group |-> "", end |-> 0]

\* \(([^)]+)\) with the ( at index k of s and the first ) after it at index c
ParenGroup(s, k, c) ==
    IF k <= Len(s) /\ Ch(s, k) = "(" /\ c <= Len(s) /\ c > k + 1
    THEN [ok |-> TRUE, group |-> SubSeq(s, k + 1, c - 1), end |-> c + 1]
    ELSE NoMatch

\* \s*\(([^)]+)\) at index i of s (no match at index 0, where nothing precedes)
ParenGroupFrom(s, k) == ParenGroup(s, k, Find(s, k + 1, {")"}))
ParenGroupAt(s, i) == IF i = 0 THEN NoMatch ELSE ParenGroupFrom(s, SkipSpaces(s, i))

\* W1\s+W2\s*\(([^)]+)\) at index i of s
KeyClauseAt(s, i, w1, w2) == ParenGroupAt(s, TwoWordsAt(s, i, w1, w2))

\* re.search of W1\s+W2\s*\(([^)]+)\): the leftmost match
KeyClauseSearch(s, w1, w2) ==
    KeyClauseAt(s, MinOr({i \in 1..Len(s) : KeyClauseAt(s, i, w1, w2).ok}, 0), w1, w2)

\* a depth that never falls below zero: a ) without its ( is ignored
RECURSIVE DepthAtNeverNegative(_, _)
DepthAtNeverNegative(text, i) ==
    IF i <= 1 THEN 0
    ELSE IF Ch(text, i - 1) = "(" THEN DepthAtNeverNegative(text, i - 1) + 1
    ELSE IF Ch(text, i - 1) = ")" /\ DepthAtNeverNegative(text, i - 1) > 0
    THEN DepthAtNeverNegative(text, i - 1) - 1
    ELSE DepthAtNeverNegative(text, i - 1)

\* paren_depth of _split_by_comma when the loop reaches index i of text
DepthAt(text, i) ==
    Cardinality({j \in 1..(i - 1) : Ch(text, j) = "("})
        - Cardinality({j \in 1..(i - 1) : Ch(text, j) = ")"})

\* the loop of _split_by_comma from index i on, a part starting there: the
\* parts it appends, the last one only if it is not empty
RECURSIVE SplitLoop(_, _)
SplitAt(text, i, comma) ==
    IF comma = 0
    THEN IF i <= Len(text) THEN <<From(text, i)>> ELSE <<>>
    ELSE <<SubSeq(text, i, comma - 1)>> \o SplitLoop(text, comma + 1)
SplitLoop(text, i) ==
    SplitAt(text, i, MinOr({j \in i..Len(text) : Ch(text, j) = "," /\ DepthAt(text, j) = 0}, 0))

_split_by_comma(text) == SplitLoop(text, 1)

\* col_def.split(None, maxsplit)
RECURSIVE SplitWhitespace(_, _)
SplitPiece(s, a, b, maxsplit) ==
    <<SubSeq(s, a, b - 1)>> \o SplitWhitespace(From(s, b), maxsplit - 1)
SplitFrom(s, a, maxsplit) ==
    IF a > Len(s) THEN <<>>
    ELSE IF maxsplit = 0 THEN <<From(s, a)>>
    ELSE SplitPiece(s, a, Find(s, a, Whitespace), maxsplit)
SplitWhitespace(s, maxsplit) == SplitFrom(s, SkipSpaces(s, 1), maxsplit)

\* the number of letters s starts with
Letters(s) == MinOr({j \in 1..Len(s) : ~IsLetter(Ch(s, j))}, Len(s) + 1) - 1

\* re.match(r'([A-Z]+)(\([^)]+\))?', piece, re.IGNORECASE): group(0), with n
\* letters at the start of piece and the first ) after the ( at index c
TypeGroup(piece, n, c) ==
    IF n = 0 THEN NoMatch
    ELSE IF n < Len(piece) /\ Ch(piece, n + 1) = "(" /\ c <= Len(piece) /\ c > n + 2
    THEN [ok |-> TRUE, group |-> SubSeq(piece, 1, c), end |-> c + 1]
    ELSE [ok |-> TRUE, group |-> SubSeq(piece, 1, n), end |-> n + 1]
TypeMatch(piece) == TypeGroup(piece, Letters(piece), Find(piece, Letters(piece) + 2, {")"}))

\* re.search(r'PRIMARY\s+KEY', s, re.IGNORECASE): the index of the leftmost
\* match, 0 when there is none
PrimaryKeySearch(s) == MinOr({i \in 1..Len(s) : TwoWordsAt(s, i, "PRIMARY", "KEY") # 0}, 0)

\* re.sub(r'PRIMARY\s+KEY', '', s, flags=re.IGNORECASE)
RECURSIVE PrimaryKeySub(_)
PrimaryKeyCut(s, i) ==
    IF i = 0 THEN s
    ELSE SubSeq(s, 1, i - 1) \o PrimaryKeySub(From(s, TwoWordsAt(s, i, "PRIMARY", "KEY")))
PrimaryKeySub(s) == PrimaryKeyCut(s, PrimaryKeySearch(s))

\* the record _parse_column_definition returns, constraints_str being the text
\* after the type, stripped ("" when there is none)
ColumnRecord(col_name, col_type, is_primary_key, constraints_str) ==
    Dct([name |-> Str(col_name), type |-> Str(col_type),
         constraints |-> IF constraints_str # "" THEN Str(constraints_str) ELSE NoneV,
         is_primary_key |-> BoolV(is_primary_key)])

\* ColumnWith, but what is left of the constraints is not stripped
ColumnWithUnstripped(col_name, col_type, constraints_str) ==
    IF PrimaryKeySearch(constraints_str) # 0
    THEN ColumnRecord(col_name, col_type, TRUE, PrimaryKeySub(constraints_str))
    ELSE ColumnRecord(col_name, col_type, FALSE, constraints_str)

ColumnWith(col_name, col_type, constraints_str) ==
    IF PrimaryKeySearch(constraints_str) # 0
    THEN ColumnRecord(col_name, col_type, TRUE, strip(PrimaryKeySub(constraints_str)))
    ELSE ColumnRecord(col_name, col_type, FALSE, constraints_str)

ColumnType(piece, type_match) ==
    IF type_match.ok THEN upper(type_match.group) ELSE upper(piece)

ColumnFrom(parts) ==
    IF Len(parts) < 2 THEN NoneV
    ELSE ColumnWith(StripQuotes(parts[1]), ColumnType(parts[2], TypeMatch(parts[2])),
                    IF Len(parts) > 2 THEN strip(parts[3]) ELSE "")

_parse_column_definition(col_def) == ColumnFrom(SplitWhitespace(col_def, 2))

\* re.search(r'CONSTRAINT\s+([^\s]+)', fk_def, re.IGNORECASE)
ConstraintName(s, j, k) ==
    IF k > j /\ k <= Len(s)
    THEN [ok |-> TRUE, group |-> SubSeq(s, k, Find(s, k, Whitespace) - 1),
          end |-> Find(s, k, Whitespace)]
    ELSE NoMatch
ConstraintNameAt(s, i) ==
    IF WordAt(s, i, "CONSTRAINT")
    THEN ConstraintName(s, i + Len("CONSTRAINT"), SkipSpaces(s, i + Len("CONSTRAINT")))
    ELSE NoMatch
ConstraintNameSearch(s) ==
    ConstraintNameAt(s, MinOr({i \in 1..Len(s) : ConstraintNameAt(s, i).ok}, 0))

\* re.search(r'REFERENCES\s+([^\s(]+)\s*\(([^)]+)\)', fk_def, re.IGNORECASE):
\* group(1) as table, group(2) as group
NoReferences == [ok |-> FALSE, table |-> "", group |-> ""]
ReferencesGroup(s, k, e, g) ==
    IF e > k /\ g.ok THEN [ok |-> TRUE, table |-> SubSeq(s, k, e - 1), group |-> g.group]
    ELSE NoReferences
ReferencesTable(s, k, e) == ReferencesGroup(s, k, e, ParenGroupAt(s, e))
ReferencesFrom(s, j, k) ==
    IF k > j /\ k <= Len(s) THEN ReferencesTable(s, k, Find(s, k, Whitespace \cup {"("}))
    ELSE NoReferences
ReferencesAt(s, i) ==
    IF WordAt(s, i, "REFERENCES")
    THEN ReferencesFrom(s, i + Len("REFERENCES"), SkipSpaces(s, i + Len("REFERENCES")))
    ELSE NoReferences
ReferencesSearch(s) ==
    ReferencesAt(s, MinOr({i \in 1..Len(s) : ReferencesAt(s, i).ok}, 0))

\* the record _parse_foreign_key returns, fk_name being "" when no name was given
ForeignKeyRecord(fk_name, fk_columns, ref_table, ref_columns) ==
    Dct([name |-> Str(IF fk_name = ""
                      THEN "fk_" \o ref_table \o "_" \o Join(fk_columns, "_")
                      ELSE fk_name),
         columns |-> Lst([n \in 1..Len(fk_columns) |-> Str(fk_columns[n])]),
         ref_table |-> Str(ref_table),
         ref_columns |-> Lst([n \in 1..Len(ref_columns) |-> Str(ref_columns[n])])])

ForeignKeyFrom(name_match, fk_cols_match, ref_match) ==
    IF ~fk_cols_match.ok THEN NoneV
    ELSE IF ~ref_match.ok THEN NoneV
    ELSE ForeignKeyRecord(IF name_match.ok THEN StripQuotes(name_match.group) ELSE "",
                          ColumnList(fk_cols_match.group),
                          StripQuotes(ref_match.table),
                          ColumnList(ref_match.group))

_parse_foreign_key(fk_def) ==
    ForeignKeyFrom(ConstraintNameSearch(fk_def), KeyClauseSearch(fk_def, "FOREIGN", "KEY"),
                   ReferencesSearch(fk_def))

\* re.search(r'\((.*)\)', stmt_str, re.DOTALL): from the first ( to the last )
ParenSpan(stmt_str, a, z) ==
    IF a <= Len(stmt_str) /\ z > a
    THEN [ok |-> TRUE, group |-> SubSeq(stmt_str, a + 1, z - 1), end |-> z + 1]
    ELSE NoMatch
ParenSearch(stmt_str) ==
    ParenSpan(stmt_str, Find(stmt_str, 1, {"("}), FindLast(stmt_str, Len(stmt_str), {")"}))

\* lines 70-78 of _parse_create_table: the scan of the tokens from token n on;
\* "" when the scan ends without a name
RECURSIVE ScanTableName(_, _, _)
ScanTableName(tokens, n, in_table_name) ==
    IF n > Len(tokens) THEN ""
    ELSE IF tokens[n].ttype = "Keyword.DDL" /\ upper(tokens[n].value) = "CREATE"
    THEN ScanTableName(tokens, n + 1, in_table_name)
    ELSE IF tokens[n].ttype = "Keyword" /\ upper(tokens[n].value) = "TABLE"
    THEN ScanTableName(tokens, n + 1, TRUE)
    ELSE IF in_table_name /\ tokens[n].ttype = "Name"
    THEN StripQuotes(tokens[n].value)
    ELSE ScanTableName(tokens, n + 1, in_table_name)

\* primary_key.extend(pk_cols), primary_key.append(col_def['name'])
ExtendPrimaryKey(primary_key, names) == primary_key \o names

\* columns, primary_key and foreign_keys of _parse_create_table
NoDefinitions == [columns |-> <<>>, primary_key |-> <<>>, foreign_keys |-> <<>>]

\* lines 96-99
AddPrimaryKey(defs, pk_match) ==
    IF pk_match.ok
    THEN [defs EXCEPT !.primary_key = ExtendPrimaryKey(@, ColumnList(pk_match.group))]
    ELSE defs

\* lines 103-105 and 109-111
AddForeignKey(defs, fk_def) ==
    IF fk_def.kind # "none" THEN [defs EXCEPT !.foreign_keys = Append(@, fk_def)] ELSE defs

\* lines 115-120
AddColumn(defs, col_def) ==
    IF col_def.kind = "none" THEN defs
    ELSE IF Get(col_def, "is_primary_key").val
    THEN [defs EXCEPT !.columns = Append(@, col_def),
                      !.primary_key = ExtendPrimaryKey(@, <<Get(col_def, "name").val>>)]
    ELSE [defs EXCEPT !.columns = Append(@, col_def)]

\* ClassifyPart, but a named PRIMARY KEY constraint extends the primary key
ClassifyPartWithNamedPrimaryKey(defs, part) ==
    IF TwoWordsAt(part, 1, "PRIMARY", "KEY") # 0
    THEN AddPrimaryKey(defs, KeyClauseSearch(part, "PRIMARY", "KEY"))
    ELSE IF TwoWordsAt(part, 1, "FOREIGN", "KEY") # 0
    THEN AddForeignKey(defs, _parse_foreign_key(part))
    ELSE IF WordAt(part, 1, "CONSTRAINT") /\ KeyClauseSearch(part, "PRIMARY", "KEY").ok
    THEN AddPrimaryKey(defs, KeyClauseSearch(part, "PRIMARY", "KEY"))
    ELSE IF WordAt(part, 1, "CONSTRAINT")
    THEN AddForeignKey(defs, _parse_foreign_key(part))
    ELSE AddColumn(defs, _parse_column_definition(part))

\* lines 94-120 of _parse_create_table, part being stripped
ClassifyPart(defs, part) ==
    IF TwoWordsAt(part, 1, "PRIMARY", "KEY") # 0
    THEN AddPrimaryKey(defs, KeyClauseSearch(part, "PRIMARY", "KEY"))
    ELSE IF TwoWordsAt(part, 1, "FOREIGN", "KEY") # 0
    THEN AddForeignKey(defs, _parse_foreign_key(part))
    ELSE IF WordAt(part, 1, "CONSTRAINT")
    THEN AddForeignKey(defs, _parse_foreign_key(part))
    ELSE AddColumn(defs, _parse_column_definition(part))

\* lines 91-120 of _parse_create_table: the loop over parts from part n on
RECURSIVE PartsLoop(_, _, _)
PartsLoop(parts, n, defs) ==
    IF n > Len(parts) THEN defs
    ELSE PartsLoop(parts, n + 1, ClassifyPart(defs, strip(parts[n])))

\* lines 84-89
Definitions(paren_match) ==
    IF paren_match.ok THEN PartsLoop(_split_by_comma(paren_match.group), 1, NoDefinitions)
    ELSE NoDefinitions

\* lines 122-130
TableRecord(table_name, defs) ==
    IF table_name = "" THEN NoneV
    ELSE Dct([name |-> Str(table_name),
              columns |-> Lst(defs.columns),
              primary_key |-> Lst([n \in 1..Len(defs.primary_key) |-> Str(defs.primary_key[n])]),
              foreign_keys |-> Lst(defs.foreign_keys)])

\* stmt: [type: stmt.get_type(), tokens: list(stmt.flatten()), text: str(stmt)]
_parse_create_table(stmt) ==
    TableRecord(ScanTableName(stmt.tokens, 1, FALSE), Definitions(ParenSearch(stmt.text)))

-----------------------------------------------------------------------------
(* The schemas validate_schema is run on: a base schema of up to MaxTables    *)
(* well-formed raw parser records, with up to two of its fields replaced.     *)

MaxTables == 2

TableName(i) == CASE i = 1 -> "t" [] i = 2 -> "u" [] i = 3 -> "v" [] OTHER -> "w"

RawColumn(name, type, constraints) ==
    Dct([name |-> Str(name), type |-> Str(type), constraints |-> constraints,
         is_primary_key |-> BoolV(FALSE)])
ColA == RawColumn("a", "INT", NoneV)
ColB == RawColumn("b", "INT", Str("NOT NULL"))
ColC == RawColumn("c", "INT", Str(""))

RawForeignKey(name, columns, ref_table, ref_columns) ==
    Dct([name |-> name, columns |-> columns, ref_table |-> ref_table, ref_columns |-> ref_columns])
Names(q) == Lst([n \in 1..Len(q) |-> Str(q[n])])
FkTo(ref_table, columns, ref_columns) ==
    RawForeignKey(Str("fk"), Names(columns), Str(ref_table), Names(ref_columns))
FkOk == FkTo("t", <<"b">>, <<"a">>)

BaseTable(i) ==
    Dct([name |-> Str(TableName(i)), columns |-> Lst(<<ColA, ColB>>),
         primary_key |-> Names(<<"a">>), foreign_keys |-> Lst(<<>>)])

NameValues == {NoneV, IntV, Str(""), Str("t"), Str("u")}
ColumnsValues ==
    { NoneV, Lst(<<>>), Lst(<<ColA>>), Lst(<<ColA, ColB, ColC>>), Lst(<<ColA, ColA>>),
      Lst(<<ColA, ColB, RawColumn("a", "TEXT", NoneV)>>), Lst(<<ColC, ColB>>),
      Lst(<<ColA, Str("b")>>), Lst(<<ColA, Without(ColB, "name")>>),
      Lst(<<ColA, Without(ColB, "type")>>), Lst(<<ColA, With(ColB, "name", Str(""))>>),
      Lst(<<ColA, With(ColB, "name", IntV)>>), Lst(<<ColA, With(ColB, "type", Str(""))>>),
      Lst(<<ColA, With(ColB, "type", NoneV)>>), Lst(<<ColA, With(ColB, "constraints", IntV)>>),
      Lst(<<ColA, Without(Without(ColB, "constraints"), "is_primary_key")>>) }
PrimaryKeyValues ==
    { NoneV, Lst(<<>>), Names(<<"a", "a">>), Names(<<"a", "b">>), Names(<<"c">>),
      Names(<<"a", "z">>), Lst(<<IntV>>), Lst(<<Names(<<"a">>)>>) }
ForeignKeysValues ==
    { NoneV, Lst(<<FkOk>>), Lst(<<FkTo("u", <<"b">>, <<"a">>)>>),
      Lst(<<FkTo("x", <<"b">>, <<"a">>)>>),
      Lst(<<FkTo("u", <<"a", "b">>, <<"a", "b">>)>>),
      Lst(<<FkTo("u", <<"b">>, <<"a", "b">>)>>),
      Lst(<<FkTo("t", <<"a", "b">>, <<"a">>)>>),
      Lst(<<FkTo("u", <<"b">>, <<"a", "z">>)>>),
      Lst(<<FkTo("x", <<"b">>, <<"a", "b">>)>>),
      Lst(<<FkTo("u", <<"z">>, <<"a">>)>>),
      Lst(<<FkTo("x", <<"z">>, <<"a">>)>>),
      Lst(<<FkTo("u", <<"b">>, <<"c">>)>>),
      Lst(<<FkTo("u", <<"c">>, <<"a">>)>>),
      Lst(<<FkTo("t", <<"c">>, <<"a">>)>>),
      Lst(<<Str("fk")>>), Lst(<<Without(FkOk, "name")>>), Lst(<<Without(FkOk, "ref_columns")>>),
      Lst(<<With(FkOk, "name", Str(""))>>), Lst(<<With(FkOk, "columns", Lst(<<>>))>>),
      Lst(<<With(FkOk, "columns", Str("b"))>>),
      Lst(<<With(FkOk, "columns", Lst(<<Names(<<"b">>)>>))>>),
      Lst(<<With(FkOk, "ref_table", Str(""))>>), Lst(<<With(FkOk, "ref_table", IntV)>>),
      Lst(<<With(FkOk, "ref_columns", Lst(<<>>))>>),
      Lst(<<With(FkOk, "ref_columns", Lst(<<EmptyDict>>))>>),
      Lst(<<FkOk, FkTo("u", <<"b">>, <<"a", "b">>)>>),
      Lst(<<FkTo("x", <<"b">>, <<"a">>), FkTo("t", <<"b">>, <<"a", "b">>)>>) }

\* a second table named t, with a column that table 1 has not
TwinTable ==
    Dct([name |-> Str(TableName(1)), columns |-> Lst(<<ColA, ColB, ColC>>),
         primary_key |-> Names(<<"a">>), foreign_keys |-> Lst(<<>>)])

FieldValues(field) ==
    CASE field = "name" -> NameValues
      [] field = "columns" -> ColumnsValues
      [] field = "primary_key" -> PrimaryKeyValues
      [] field = "foreign_keys" -> ForeignKeysValues
TableFields == {"name", "columns", "primary_key", "foreign_keys"}

\* the tables of a schema, when it has a list of them
TablesOf(s) == IF IsDict(s) /\ Has(s, "tables") /\ IsList(Get(s, "tables"))
               THEN Get(s, "tables").val ELSE <<>>
SchemaOf(tables) == Dct([tables |-> Lst(tables)])

BaseSchema(n) == SchemaOf([i \in 1..n |-> BaseTable(i)])

\* the changes to a schema of n tables: a field of a table set or deleted, a
\* table replaced by a number or by a second table t, or nothing
Changes(n) ==
    UNION { {[tbl |-> i, field |-> f, op |-> "set", value |-> v] : v \in FieldValues(f)} :
            <<i, f>> \in (1..n) \X TableFields }
    \cup {[tbl |-> i, field |-> f, op |-> "del", value |-> NoneV] : <<i, f>> \in (1..n) \X TableFields}
    \cup {[tbl |-> i, field |-> "", op |-> "table", value |-> v] : <<i, v>> \in (1..n) \X {IntV, TwinTable}}
    \cup {[tbl |-> 0, field |-> "", op |-> "none", value |-> NoneV]}

Change(s, c) ==
    LET tables == TablesOf(s) IN
    IF c.op = "none" THEN s
    ELSE IF c.op = "table" THEN SchemaOf([tables EXCEPT ![c.tbl] = c.value])
    ELSE IF ~IsDict(tables[c.tbl]) THEN s
    ELSE IF c.op = "set" THEN SchemaOf([tables EXCEPT ![c.tbl] = With(tables[c.tbl], c.field, c.value)])
    ELSE SchemaOf([tables EXCEPT ![c.tbl] = Without(tables[c.tbl], c.field)])

\* mappings that are no schema at the top level
Malformed == {Lst(<<>>), NoneV, EmptyDict, Dct([tables |-> NoneV]), Dct([tables |-> EmptyDict])}

IsSchemaInput(s) ==
    \/ s \in Malformed
    \/ \E n \in 0..MaxTables : \E c1 \in Changes(n), c2 \in Changes(n) :
          s = Change(Change(BaseSchema(n), c1), c2)

-----------------------------------------------------------------------------
(* validate_schema, one step per table and pass *)

\* no function is called on its own
NoCall == [fn |-> "", arg |-> "", decl |-> <<>>]
NoFrame == [table_name |-> "", paren_match |-> NoMatch]

StartValidation(s) ==
    /\ schema' = s
    /\ pc' = "start"
    /\ idx' = 1
    /\ table_names' = {}
    /\ table_columns' = <<>>
    /\ result' = Pending

Init ==
    /\ IsSchemaInput(schema)
    /\ raw = schema
    /\ pc = "start"
    /\ idx = 1
    /\ table_names = {}
    /\ table_columns = <<>>
    /\ result = Pending
    /\ phase = 1
    /\ first_result = Pending
    /\ statements = <<>>
    /\ stmt_no = 1
    /\ parsed_tables = <<>>
    /\ call = NoCall
    /\ frame = NoFrame
    /\ returned = NoneV

Finish(r) ==
    /\ result' = r
    /\ pc' = "done"

\* lines 24-36: the checks of the top-level shape
CheckTopLevel ==
    /\ pc = "start"
    /\ UNCHANGED <<schema, idx, table_names, table_columns, phase, raw, first_result, sqlvars, unitvars>>
    /\ IF ~IsDict(schema)
       THEN Finish(SchemaValidationError("Schema must be a dictionary", "schema", -1, -1))
       ELSE IF ~Has(schema, "tables")
       THEN Finish(SchemaValidationError("Schema must have 'tables' key", "schema", -1, -1))
       ELSE IF ~IsList(Get(schema, "tables"))
       THEN Finish(SchemaValidationError("'tables' must be a list", "schema", -1, -1))
       ELSE IF Len(Get(schema, "tables").val) = 0
       THEN Finish(ReturnTrue)
       ELSE pc' = "pass1" /\ result' = result

\* a single pass: each table's foreign keys are validated right after the
\* table, against the tables recorded so far
Pass1TableSinglePass ==
    /\ pc = "pass1"
    /\ LET tables == Get(schema, "tables").val
           table == tables[idx]
           e == _validate_table(table, idx - 1)
           names == table_names \cup {Get(table, "name").val}
           columns == [n \in DOMAIN table_columns \cup {Get(table, "name").val} |->
                         IF n = Get(table, "name").val THEN ColumnNameSet(table)
                         ELSE table_columns[n]]
           f == IF IsError(e) THEN e ELSE _validate_foreign_keys(table, idx - 1, names, columns)
       IN IF IsError(f)
          THEN /\ Finish(f)
               /\ UNCHANGED <<idx, table_names, table_columns>>
          ELSE /\ table_names' = names
               /\ table_columns' = columns
               /\ result' = result
               /\ IF idx < Len(tables)
                  THEN idx' = idx + 1 /\ pc' = pc
                  ELSE idx' = 1 /\ pc' = "pass2"
    /\ UNCHANGED <<schema, phase, raw, first_result, sqlvars, unitvars>>

\* lines 39-42: one iteration of the first pass
Pass1Table ==
    /\ pc = "pass1"
    /\ LET tables == Get(schema, "tables").val
           table == tables[idx]
           e == _validate_table(table, idx - 1)
       IN IF IsError(e)
          THEN /\ Finish(e)
               /\ UNCHANGED <<idx, table_names, table_columns>>
          ELSE /\ table_names' = table_names \cup {Get(table, "name").val}
               /\ table_columns' =
                     [n \in DOMAIN table_columns \cup {Get(table, "name").val} |->
                        IF n = Get(table, "name").val THEN ColumnNameSet(table)
                        ELSE table_columns[n]]
               /\ result' = result
               /\ IF idx < Len(tables)
                  THEN idx' = idx + 1 /\ pc' = pc
                  ELSE idx' = 1 /\ pc' = "pass2"
    /\ UNCHANGED <<schema, phase, raw, first_result, sqlvars, unitvars>>

\* a second pass that checks the foreign keys of a table against the tables
\* up to it in the list only
Pass2TableSeesEarlierTables ==
    /\ pc = "pass2"
    /\ LET tables == Get(schema, "tables").val
           names == {Get(tables[k], "name").val : k \in 1..idx}
           e == _validate_foreign_keys(tables[idx], idx - 1, names,
                                       [n \in names |-> table_columns[n]])
       IN IF IsError(e)
          THEN Finish(e) /\ idx' = idx
          ELSE IF idx < Len(tables)
          THEN idx' = idx + 1 /\ pc' = pc /\ result' = result
          ELSE Finish(ReturnTrue) /\ idx' = idx
    /\ UNCHANGED <<schema, table_names, table_columns, phase, raw, first_result, sqlvars, unitvars>>

\* lines 45-48: one iteration of the second pass, and the return after the last
Pass2Table ==
    /\ pc = "pass2"
    /\ LET tables == Get(schema, "tables").val
           e == _validate_foreign_keys(tables[idx], idx - 1, table_names, table_columns)
       IN IF IsError(e)
          THEN Finish(e) /\ idx' = idx
          ELSE IF idx < Len(tables)
          THEN idx' = idx + 1 /\ pc' = pc /\ result' = result
          ELSE Finish(ReturnTrue) /\ idx' = idx
    /\ UNCHANGED <<schema, table_names, table_columns, phase, raw, first_result, sqlvars, unitvars>>

validate_schema == CheckTopLevel \/ Pass1Table \/ Pass2Table

\* validate_schema(schema_to_dict(ASTBuilder().build(raw))), after validate_schema(raw)
RoundTrip ==
    /\ pc = "done"
    /\ phase = 1
    /\ phase' = 2
    /\ first_result' = result
    /\ raw' = raw
    /\ UNCHANGED <<sqlvars, unitvars>>
    /\ LET ast == build(raw)
       IN IF IsError(ast.err)
          THEN /\ result' = ast.err
               /\ pc' = "failed"
               /\ UNCHANGED <<schema, idx, table_names, table_columns>>
          ELSE StartValidation(schema_to_dict(ast.value))

\* validate_schema(reordered), after validate_schema(raw): reordered is raw with
\* its 'tables' list in another order
Reordered(s, p) == SchemaOf([n \in 1..Len(TablesOf(s)) |-> TablesOf(s)[p[n]]])

Reorder ==
    /\ pc = "done"
    /\ phase = 1
    /\ Len(TablesOf(raw)) >= 2
    /\ phase' = 4
    /\ first_result' = result
    /\ raw' = raw
    /\ UNCHANGED <<sqlvars, unitvars>>
    /\ \E p \in Permutations(1..Len(TablesOf(raw))) :
          /\ Reordered(raw, p) # raw
          /\ StartValidation(Reordered(raw, p))

Next == validate_schema \/ RoundTrip \/ Reorder

Spec == Init /\ [][Next]_vars

-----------------------------------------------------------------------------
(* The SQL the pipeline is run on.  sqlparse is a library: what it returns is  *)
(* an input here, a statement being its get_type(), its flattened tokens and   *)
(* its text.  Each statement carries, as decl, what its SQL declares: the      *)
(* table name ("" when it declares no table) and, fragment by fragment, the    *)
(* column, primary key or foreign key written there.                           *)

MaxStmts == 3

Token(ttype, value) == [ttype |-> ttype, value |-> value]
Sp == Token("Text.Whitespace", " ")
Name(v) == Token("Name", v)
Builtin(v) == Token("Name.Builtin", v)
Keyword(v) == Token("Keyword", v)
Punct(v) == Token("Punctuation", v)
Number(v) == Token("Literal.Number.Integer", v)
Symbol(v) == Token("Literal.String.Symbol", v)

Fragment(text, tokens, kind, name, inline_pk, cols, ref_table, ref_cols) ==
    [text |-> text, tokens |-> tokens, kind |-> kind, name |-> name, inline_pk |-> inline_pk,
     cols |-> cols, ref_table |-> ref_table, ref_cols |-> ref_cols]
ColumnFragment(text, tokens, name, inline_pk) ==
    Fragment(text, tokens, "column", name, inline_pk, <<>>, "", <<>>)
PrimaryKeyFragment(text, tokens, cols) ==
    Fragment(text, tokens, "primary_key", "", FALSE, cols, "", <<>>)
ForeignKeyFragment(text, tokens, name, cols, ref_table, ref_cols) ==
    Fragment(text, tokens, "foreign_key", name, FALSE, cols, ref_table, ref_cols)

ColA_Pk ==
    ColumnFragment("a INT PRIMARY KEY",
                   <<Name("a"), Sp, Builtin("INT"), Sp, Keyword("PRIMARY"), Sp, Keyword("KEY")>>,
                   "a", TRUE)
ColA_Plain == ColumnFragment("a INT", <<Name("a"), Sp, Builtin("INT")>>, "a", FALSE)
ColB_Varchar ==
    ColumnFragment("b VARCHAR(50) NOT NULL",
                   <<Name("b"), Sp, Name("VARCHAR"), Punct("("), Number("50"), Punct(")"), Sp,
                     Keyword("NOT NULL")>>,
                   "b", FALSE)
ColB_Pk ==
    ColumnFragment("\"b\" decimal(10,2) primary  key",
                   <<Symbol("\"b\""), Sp, Name("decimal"), Punct("("), Number("10"), Punct(","),
                     Number("2"), Punct(")"), Sp, Keyword("primary"),
                     Token("Text.Whitespace", "  "), Keyword("key")>>,
                   "b", TRUE)
ColConstraintId ==
    ColumnFragment("constraint_id INTEGER PRIMARY KEY",
                   <<Name("constraint_id"), Sp, Builtin("INTEGER"), Sp, Keyword("PRIMARY"), Sp,
                     Keyword("KEY")>>,
                   "constraint_id", TRUE)
Pk_A ==
    PrimaryKeyFragment("PRIMARY KEY (a)",
                       <<Keyword("PRIMARY"), Sp, Keyword("KEY"), Sp, Punct("("), Name("a"),
                         Punct(")")>>,
                       <<"a">>)
Pk_BA ==
    PrimaryKeyFragment("PRIMARY KEY (b, a)",
                       <<Keyword("PRIMARY"), Sp, Keyword("KEY"), Sp, Punct("("), Name("b"),
                         Punct(","), Sp, Name("a"), Punct(")")>>,
                       <<"b", "a">>)
Fk_B(ref_table) ==
    ForeignKeyFragment("FOREIGN KEY (b) REFERENCES " \o ref_table \o "(a)",
                       <<Keyword("FOREIGN"), Sp, Keyword("KEY"), Sp, Punct("("), Name("b"),
                         Punct(")"), Sp, Keyword("REFERENCES"), Sp, Name(ref_table), Punct("("), Name("a"),
                         Punct(")")>>,
                       "fk_" \o ref_table \o "_b", <<"b">>, ref_table, <<"a">>)
Fk_AB(ref_table) ==
    ForeignKeyFragment("CONSTRAINT fk_ab FOREIGN KEY (a, b) REFERENCES " \o ref_table \o " (b, a)",
                       <<Keyword("CONSTRAINT"), Sp, Name("fk_ab"), Sp, Keyword("FOREIGN"), Sp,
                         Keyword("KEY"), Sp, Punct("("), Name("a"), Punct(","), Sp, Name("b"),
                         Punct(")"), Sp, Keyword("REFERENCES"), Sp, Name(ref_table), Sp,
                         Punct("("), Name("b"), Punct(","), Sp, Name("a"), Punct(")")>>,
                       "fk_ab", <<"a", "b">>, ref_table, <<"b", "a">>)

RECURSIVE Concat(_)
Concat(qs) == IF Len(qs) = 0 THEN <<>> ELSE Head(qs) \o Concat(Tail(qs))

\* the tokens of fragments written one after the other with ", " in between
RECURSIVE BodyTokens(_)
BodyTokens(frags) ==
    IF Len(frags) = 0 THEN <<>>
    ELSE IF Len(frags) = 1 THEN frags[1].tokens
    ELSE frags[1].tokens \o <<Punct(","), Sp>> \o BodyTokens(Tail(frags))

\* CREATE TABLE name (fragments);
CreateTable(name, frags) ==
    [type |-> "CREATE",
     tokens |-> <<Token("Keyword.DDL", "CREATE"), Sp, Keyword("TABLE"), Sp, Name(name), Sp,
                  Punct("(")>> \o BodyTokens(frags) \o <<Punct(")"), Punct(";")>>,
     text |-> "CREATE TABLE " \o name \o " ("
                 \o Join([n \in 1..Len(frags) |-> frags[n].text], ", ") \o ");",
     decl |-> [table |-> name, frags |-> frags]]

InsertInto ==
    [type |-> "INSERT",
     tokens |-> <<Token("Keyword.DML", "INSERT"), Sp, Keyword("INTO"), Sp, Name("t"), Sp,
                  Keyword("VALUES"), Sp, Punct("("), Number("1"), Punct(")"), Punct(";")>>,
     text |-> "INSERT INTO t VALUES (1);",
     decl |-> [table |-> "", frags |-> <<>>]]

CreateIndex ==
    [type |-> "CREATE",
     tokens |-> <<Token("Keyword.DDL", "CREATE"), Sp, Keyword("INDEX"), Sp, Name("i"), Sp,
                  Keyword("ON"), Sp, Name("t"), Sp, Punct("("), Name("a"), Punct(")"),
                  Punct(";")>>,
     text |-> "CREATE INDEX i ON t (a);",
     decl |-> [table |-> "", frags |-> <<>>]]

StatementPool ==
    { CreateTable("t", <<ColA_Pk, ColB_Varchar>>),
      CreateTable("t", <<ColA_Pk, ColB_Varchar, Fk_B("t")>>),
      CreateTable("t", <<ColA_Pk, ColB_Varchar, Fk_B("u")>>),
      CreateTable("t", <<ColConstraintId>>),
      CreateTable("t", <<ColB_Pk, Pk_A, ColA_Pk>>),
      CreateTable("t", <<Pk_A>>),
      CreateTable("u", <<ColA_Plain, ColB_Varchar, Pk_BA>>),
      CreateTable("u", <<Pk_A, ColA_Plain, ColB_Pk, Fk_AB("t")>>),
      CreateTable("u", <<ColA_Plain, ColB_Varchar, Fk_AB("u")>>),
      CreateTable("u", <<ColA_Plain>>),
      CreateTable("u", <<ColA_Plain, ColB_Varchar, Fk_B("x")>>),
      InsertInto, CreateIndex }

IsScript(q) ==
    \E n \in 0..MaxStmts : q \in [1..n -> StatementPool]

-----------------------------------------------------------------------------
(* The pipeline parse_sql_string -> ASTBuilder.build -> schema_to_dict ->      *)
(* validate_schema, one step per statement, then one per call                  *)

InitSql ==
    /\ IsScript(statements)
    /\ stmt_no = 1
    /\ parsed_tables = <<>>
    /\ pc = "parse"
    /\ phase = 0
    /\ schema = NoneV
    /\ raw = NoneV
    /\ idx = 1
    /\ table_names = {}
    /\ table_columns = <<>>
    /\ result = Pending
    /\ first_result = Pending
    /\ call = NoCall
    /\ frame = NoFrame
    /\ returned = NoneV

\* lines 44-47 of parse_sql_string
AppendTable(stmt, table_def) ==
    IF stmt.type = "CREATE" /\ table_def.kind # "none" THEN Append(parsed_tables, table_def)
    ELSE parsed_tables

\* a loop that ends at the first statement that is no CREATE
ParseStatementStopsAtOther ==
    /\ pc = "parse"
    /\ stmt_no <= Len(statements)
    /\ parsed_tables' = AppendTable(statements[stmt_no], _parse_create_table(statements[stmt_no]))
    /\ stmt_no' = IF statements[stmt_no].type = "CREATE" THEN stmt_no + 1
                  ELSE Len(statements) + 1
    /\ UNCHANGED <<unitvars, statements, schema, pc, idx, table_names, table_columns, result, phase, raw,
                   first_result>>

\* lines 42-47 of parse_sql_string: one iteration of the loop over statements
ParseStatement ==
    /\ pc = "parse"
    /\ stmt_no <= Len(statements)
    /\ parsed_tables' = AppendTable(statements[stmt_no], _parse_create_table(statements[stmt_no]))
    /\ stmt_no' = stmt_no + 1
    /\ UNCHANGED <<unitvars, statements, schema, pc, idx, table_names, table_columns, result, phase, raw,
                   first_result>>

\* line 49 of parse_sql_string: return {'tables': tables}
ReturnTables ==
    /\ pc = "parse"
    /\ stmt_no > Len(statements)
    /\ raw' = Dct([tables |-> Lst(parsed_tables)])
    /\ pc' = "parsed"
    /\ UNCHANGED <<unitvars, statements, stmt_no, parsed_tables, schema, idx, table_names, table_columns,
                   result, phase, first_result>>

parse_sql_string == ParseStatement \/ ReturnTables

\* validate_schema(schema_to_dict(ASTBuilder().build(parsed))): the call of build,
\* the call of schema_to_dict and the entry of validate_schema
BuildAndSerialize ==
    /\ pc = "parsed"
    /\ LET ast == build(raw)
       IN IF IsError(ast.err)
          THEN /\ result' = ast.err
               /\ pc' = "failed"
               /\ UNCHANGED <<schema, idx, table_names, table_columns>>
          ELSE StartValidation(schema_to_dict(ast.value))
    /\ UNCHANGED <<unitvars, statements, stmt_no, parsed_tables, phase, raw, first_result>>

NextSql == parse_sql_string \/ BuildAndSerialize \/ validate_schema

SpecSql == InitSql /\ [][NextSql]_vars

-----------------------------------------------------------------------------
(* The functions of the parser, each called on its own on an argument of a    *)
(* bounded set.                                                               *)

MaxLen == 5

\* the texts of up to n characters over the characters of cs
Texts(cs, n) == UNION {{Join(q, "") : q \in [1..k -> cs]} : k \in 0..n}

\* the arguments of _split_by_comma: a letter, commas and parentheses
SplitTexts == Texts({"a", ",", "(", ")"}, MaxLen)

Call(fn, arg, decl) == [fn |-> fn, arg |-> arg, decl |-> decl]

\* the arguments of _parse_create_table: a statement is the tokens of what
\* stands in front of the table name, of what stands where the name is
\* expected and of the rest, each token after a space; its text is the values
\* of its tokens. decl.table is the table name written there ("" when the
\* first token after TABLE is no identifier).
Create == Token("Keyword.DDL", "CREATE")
Heads ==
    { <<Create, Sp, Keyword("TABLE")>>,
      <<Create, Sp, Keyword("TEMPORARY"), Sp, Keyword("TABLE")>>,
      <<Create, Sp, Keyword("INDEX")>> }

NameTokens(tokens, table) == [tokens |-> tokens, table |-> table]
NameParts ==
    { NameTokens(<<>>, ""),
      NameTokens(<<Sp, Name("t")>>, "t"),
      NameTokens(<<Sp, Name("[t]")>>, "t"),
      NameTokens(<<Sp, Symbol("\"t\"")>>, "t"),
      NameTokens(<<Sp, Keyword("IF"), Sp, Keyword("NOT"), Sp, Keyword("EXISTS"), Sp, Name("t")>>, ""),
      NameTokens(<<Sp, Number("5")>>, "") }

Tails ==
    { <<Sp, Punct("("), Name("a"), Sp, Builtin("INT"), Punct(")"), Punct(";")>>,
      <<Sp, Punct("("), Name("a"), Sp, Builtin("INT"), Punct(","), Sp, Name("b"), Sp,
        Name("DECIMAL"), Punct("("), Number("10"), Punct(","), Number("2"), Punct(")"),
        Punct(")"), Punct(";")>>,
      <<Sp, Punct("("), Name("a"), Sp, Builtin("INT"), Punct(")"), Sp, Keyword("WITH"), Sp,
        Punct("("), Name("fillfactor"), Token("Operator.Comparison", "="), Number("70"),
        Punct(")"), Punct(";")>>,
      <<Sp, Punct("("), Name("a"), Sp, Builtin("INT"), Punct(","), Sp, Name("b"), Sp,
        Name("VARCHAR"), Punct("("), Number("50"), Punct(")"), Punct(")"), Sp,
        Keyword("PARTITION"), Sp, Keyword("BY"), Sp, Name("HASH"), Punct("("), Name("a"),
        Punct(")"), Punct(";")>>,
      <<Sp, Punct("("), Name("a"), Sp, Builtin("INT"), Punct(";")>>,
      <<Punct(";")>> }

TextOf(tokens) == Join([n \in 1..Len(tokens) |-> tokens[n].value], "")

Statement(head, name_part, tail) ==
    [type |-> "CREATE",
     tokens |-> head \o name_part.tokens \o tail,
     text |-> TextOf(head \o name_part.tokens \o tail),
     decl |-> [table |-> IF Keyword("TABLE") \in Range(head) THEN name_part.table ELSE "",
               frags |-> <<>>]]

Statements == {Statement(h, n, t) : <<h, n, t>> \in Heads \X NameParts \X Tails}

\* the fragments of a table body: text is the fragment, the other fields say
\* what is written there. starts: the words the fragment begins with; name:
\* the column name or the constraint name, as meant ("" when none is written);
\* cols: the columns of its FOREIGN KEY (...) part (<<>> when it has none);
\* ref_table, ref_cols: those of its REFERENCES table (...) part ("" and <<>>
\* when it has none); type: the second piece of a column definition; words:
\* what follows it.
Written(text, starts, name, type, cols, ref_table, ref_cols, words) ==
    [text |-> text, starts |-> starts, name |-> name, type |-> type, cols |-> cols,
     ref_table |-> ref_table, ref_cols |-> ref_cols, words |-> words]

MaxWords == 3

ConstraintParts ==
    { [text |-> "", name |-> ""],
      [text |-> "CONSTRAINT fk_ab ", name |-> "fk_ab"],
      [text |-> "constraint  \"fk1\" ", name |-> "fk1"] }
KeyParts ==
    { [text |-> "FOREIGN KEY (b, a)", starts |-> "FOREIGN KEY", cols |-> <<"b", "a">>],
      [text |-> "foreign  key([a])", starts |-> "FOREIGN KEY", cols |-> <<"a">>],
      [text |-> "FOREIGN KEY", starts |-> "FOREIGN KEY", cols |-> <<>>],
      [text |-> "PRIMARY KEY (a)", starts |-> "PRIMARY KEY", cols |-> <<>>],
      [text |-> "CHECK (a > 0)", starts |-> "", cols |-> <<>>] }
ReferencesParts ==
    { [text |-> "", ref_table |-> "", ref_cols |-> <<>>],
      [text |-> " REFERENCES u(x, y)", ref_table |-> "u", ref_cols |-> <<"x", "y">>],
      [text |-> " references \"u\" ( [x] ) ON DELETE CASCADE", ref_table |-> "u", ref_cols |-> <<"x">>],
      [text |-> " REFERENCES my_constraint (x)", ref_table |-> "my_constraint", ref_cols |-> <<"x">>],
      [text |-> " REFERENCES u", ref_table |-> "", ref_cols |-> <<>>] }

ConstraintFragment(c, k, r) ==
    Written(c.text \o k.text \o r.text, IF c.name # "" THEN "CONSTRAINT" ELSE k.starts,
            c.name, "", k.cols, r.ref_table, r.ref_cols, <<>>)
ConstraintFragments ==
    {ConstraintFragment(c, k, r) : <<c, k, r>> \in ConstraintParts \X KeyParts \X ReferencesParts}
    \cup {Written("FOREIGN KEY (c) REFERENCES other(d)", "FOREIGN KEY", "", "", <<"c">>, "other", <<"d">>, <<>>)}

\* column definitions: a name, a type and up to MaxWords words after it
ColumnNameParts ==
    { [text |-> "a", name |-> "a"], [text |-> "\"b\"", name |-> "b"],
      [text |-> "Constraint_Id", name |-> "Constraint_Id"] }
TypeParts == {"INT", "varchar(50)"}
\* types with characters glued to them
GluedTypeParts == {"INT4", "varchar(50)NOT", "int[]", "numeric()", "9x"}
ConstraintWords == {"PRIMARY", "KEY", "PRIMARY KEY", "primary \t key", "NOT NULL"}
WordLists == UNION {[1..k -> ConstraintWords] : k \in 0..MaxWords}

ColumnDefinition(n, type, words, sep) ==
    Written(n.text \o sep \o type \o (IF Len(words) = 0 THEN "" ELSE sep \o Join(words, " ")) \o
            (IF sep = " " THEN "" ELSE sep),
            "", n.name, type, <<>>, "", <<>>, words)
ColumnDefinitions ==
    {ColumnDefinition(n, type, words, sep) :
        <<n, type, words, sep>> \in ColumnNameParts \X TypeParts \X WordLists \X {" ", "  "}}
    \cup {ColumnDefinition(n, type, words, " ") :
              <<n, type, words>> \in ColumnNameParts \X GluedTypeParts \X {<<>>, <<"NOT NULL">>}}
    \cup {Written(n.text, "", "", "", <<>>, "", <<>>, <<>>) : n \in ColumnNameParts}

\* the table a fragment is added to: empty, or with a column, a primary key
\* and a foreign key
SomeDefinitions ==
    [columns |-> <<ColumnRecord("k", "INT", FALSE, "")>>, primary_key |-> <<"k">>,
     foreign_keys |-> <<ForeignKeyRecord("fk_k", <<"k">>, "u", <<"x">>)>>]

Calls ==
    {Call("_split_by_comma", text, <<>>) : text \in SplitTexts}
    \cup {Call("_parse_create_table", stmt, stmt.decl) : stmt \in Statements}
    \cup {Call("_parse_foreign_key", f.text, f) : f \in ConstraintFragments}
    \cup {Call("_parse_column_definition", f.text, f) : f \in ColumnDefinitions}
    \cup {Call("part", [part |-> f.text, defs |-> defs], f) :
             <<f, defs>> \in (ConstraintFragments \cup ColumnDefinitions)
                                \X {NoDefinitions, SomeDefinitions}}

InitUnits ==
    /\ call \in Calls
    /\ frame = NoFrame
    /\ returned = NoneV
    /\ pc = "call"
    /\ phase = 3
    /\ schema = NoneV
    /\ raw = NoneV
    /\ idx = 1
    /\ table_names = {}
    /\ table_columns = <<>>
    /\ result = Pending
    /\ first_result = Pending
    /\ statements = <<>>
    /\ stmt_no = 1
    /\ parsed_tables = <<>>

Return(value) ==
    /\ returned' = value
    /\ pc' = "returned"
    /\ UNCHANGED <<call, frame, schema, idx, table_names, table_columns, result, phase, raw,
                   first_result, sqlvars>>

SplitByComma ==
    /\ pc = "call"
    /\ call.fn = "_split_by_comma"
    /\ Return(_split_by_comma(call.arg))

\* lines 62-78 of _parse_create_table: find the table name
FindTableName ==
    /\ pc = "call"
    /\ call.fn = "_parse_create_table"
    /\ frame' = [frame EXCEPT !.table_name = ScanTableName(call.arg.tokens, 1, FALSE)]
    /\ pc' = "body"
    /\ UNCHANGED <<call, returned, schema, idx, table_names, table_columns, result, phase, raw,
                   first_result, sqlvars>>

\* lines 81-86 of _parse_create_table: extract the content between parentheses
ExtractBody ==
    /\ pc = "body"
    /\ frame' = [frame EXCEPT !.paren_match = ParenSearch(call.arg.text)]
    /\ pc' = "parts"
    /\ UNCHANGED <<call, returned, schema, idx, table_names, table_columns, result, phase, raw,
                   first_result, sqlvars>>

\* lines 89-130 of _parse_create_table: the loop over the parts and the return
ParseParts ==
    /\ pc = "parts"
    /\ Return(TableRecord(frame.table_name, Definitions(frame.paren_match)))

\* lines 91-120 of _parse_create_table: one iteration of the loop over parts,
\* with columns, primary_key and foreign_keys as in call.arg.defs
ClassifyFragment ==
    /\ pc = "call"
    /\ call.fn = "part"
    /\ Return(ClassifyPart(call.arg.defs, strip(call.arg.part)))

ParseForeignKey ==
    /\ pc = "call"
    /\ call.fn = "_parse_foreign_key"
    /\ Return(_parse_foreign_key(call.arg))

ParseColumnDefinition ==
    /\ pc = "call"
    /\ call.fn = "_parse_column_definition"
    /\ Return(_parse_column_definition(call.arg))

NextUnits ==
    \/ SplitByComma
    \/ FindTableName \/ ExtractBody \/ ParseParts
    \/ ClassifyFragment
    \/ ParseForeignKey
    \/ ParseColumnDefinition

SpecUnits == InitUnits /\ [][NextUnits]_vars

-----------------------------------------------------------------------------
(* What the specification asks of a schema, stated on the schema itself *)

Done == pc = "done"
Accepted == Done /\ result.ret = "True"
Rejected == Done /\ result.ret = "raise"
RaisedSVE == Rejected /\ result.exc = "SchemaValidationError"

\* sub occurs in s
Contains(s, sub) == \E n \in 1..(Len(s) - Len(sub) + 1) : SubSeq(s, n, n + Len(sub) - 1) = sub

NonEmptyStr(v) == IsStr(v) /\ v.val # ""
TopLevelOK(s) == IsDict(s) /\ Has(s, "tables") /\ IsList(Get(s, "tables"))

ColumnOK(c) ==
    /\ IsDict(c)
    /\ Has(c, "name") /\ NonEmptyStr(Get(c, "name"))
    /\ Has(c, "type") /\ NonEmptyStr(Get(c, "type"))
    /\ Has(c, "constraints") => Get(c, "constraints").kind \in {"none", "str"}

\* the names of the columns of t that carry a string name
ColumnNames(t) ==
    IF IsDict(t) /\ Has(t, "columns") /\ IsList(Get(t, "columns"))
    THEN {Get(c, "name").val : c \in {c \in Range(Get(t, "columns").val) :
                                         IsDict(c) /\ Has(c, "name") /\ IsStr(Get(c, "name"))}}
    ELSE {}

\* columns i and j of t carry the same name
SameName(t, i, j) ==
    LET ci == Get(t, "columns").val[i]
        cj == Get(t, "columns").val[j]
    IN /\ IsDict(ci) /\ Has(ci, "name") /\ IsStr(Get(ci, "name"))
       /\ IsDict(cj) /\ Has(cj, "name") /\ IsStr(Get(cj, "name"))
       /\ Get(ci, "name").val = Get(cj, "name").val

HasDuplicateColumn(t) ==
    /\ IsDict(t) /\ Has(t, "columns") /\ IsList(Get(t, "columns"))
    /\ \E i, j \in 1..Len(Get(t, "columns").val) : i < j /\ SameName(t, i, j)

\* entry e is the name of a column of t
IsColumnOf(e, t) == IsStr(e) /\ e.val \in ColumnNames(t)

HasDanglingPrimaryKey(t) ==
    /\ IsDict(t) /\ Has(t, "primary_key") /\ IsList(Get(t, "primary_key"))
    /\ \E e \in Range(Get(t, "primary_key").val) : ~IsColumnOf(e, t)

TableOK(t) ==
    /\ IsDict(t)
    /\ Has(t, "name") /\ NonEmptyStr(Get(t, "name"))
    /\ Has(t, "columns") /\ IsList(Get(t, "columns")) /\ Len(Get(t, "columns").val) > 0
    /\ Has(t, "primary_key") /\ IsList(Get(t, "primary_key"))
    /\ \A c \in Range(Get(t, "columns").val) : ColumnOK(c)
    /\ ~HasDuplicateColumn(t)
    /\ ~HasDanglingPrimaryKey(t)

AllTablesOK(s) == TopLevelOK(s) /\ \A t \in Range(TablesOf(s)) : TableOK(t)

\* no two tables of s carry the same name
DistinctTableNames(s) ==
    \A i, j \in 1..Len(TablesOf(s)) :
       LET ti == TablesOf(s)[i]
           tj == TablesOf(s)[j]
       IN (i < j /\ IsDict(ti) /\ IsDict(tj) /\ Has(ti, "name") /\ Has(tj, "name")
           /\ IsStr(Get(ti, "name")) /\ IsStr(Get(tj, "name")))
          => Get(ti, "name").val # Get(tj, "name").val

\* the tables of s named name
TablesNamed(s, name) ==
    {t \in Range(TablesOf(s)) : IsDict(t) /\ Has(t, "name") /\ IsStr(Get(t, "name"))
                                /\ Get(t, "name").val = name}

\* the foreign keys of t, when it has a list of them
ForeignKeysOf(t) ==
    IF IsDict(t) /\ Has(t, "foreign_keys") /\ IsList(Get(t, "foreign_keys"))
    THEN Get(t, "foreign_keys").val ELSE <<>>

FkShapeOK(fk) ==
    /\ IsDict(fk)
    /\ Has(fk, "name") /\ Has(fk, "columns") /\ Has(fk, "ref_table") /\ Has(fk, "ref_columns")
    /\ NonEmptyStr(Get(fk, "name"))
    /\ IsList(Get(fk, "columns")) /\ Len(Get(fk, "columns").val) > 0
    /\ IsList(Get(fk, "ref_columns")) /\ Len(Get(fk, "ref_columns").val) > 0

\* fk has two lists of different lengths
ArityMismatch(fk) ==
    /\ IsDict(fk) /\ Has(fk, "columns") /\ Has(fk, "ref_columns")
    /\ IsList(Get(fk, "columns")) /\ IsList(Get(fk, "ref_columns"))
    /\ Len(Get(fk, "columns").val) # Len(Get(fk, "ref_columns").val)

\* fk names a table that s does not have
DanglingRefTable(s, fk) ==
    /\ IsDict(fk) /\ Has(fk, "ref_table")
    /\ ~(IsStr(Get(fk, "ref_table")) /\ TablesNamed(s, Get(fk, "ref_table").val) # {})

\* the foreign key fk of table t of schema s is as the specification asks
\* (s with distinct table names)
FkOK(s, t, fk) ==
    /\ FkShapeOK(fk)
    /\ ~ArityMismatch(fk)
    /\ ~DanglingRefTable(s, fk)
    /\ \A e \in Range(Get(fk, "columns").val) : IsColumnOf(e, t)
    /\ \A e \in Range(Get(fk, "ref_columns").val) :
          \A u \in TablesNamed(s, Get(fk, "ref_table").val) : IsColumnOf(e, u)

ForeignKeysOK(s, t) ==
    Has(t, "foreign_keys") =>
       /\ IsList(Get(t, "foreign_keys"))
       /\ \A fk \in Range(Get(t, "foreign_keys").val) : FkOK(s, t, fk)

SchemaOK(s) == AllTablesOK(s) /\ \A t \in Range(TablesOf(s)) : ForeignKeysOK(s, t)

-----------------------------------------------------------------------------
(* Claims *)

\* validate_schema accepts exactly the schemas the specification calls valid,
\* and ends every other one with SchemaValidationError or, on an unhashable
\* entry of a key list, with TypeError (schemas with distinct table names)
AcceptsExactlyOK ==
    (Done /\ TopLevelOK(schema) /\ DistinctTableNames(schema)) =>
       /\ result.ret = "True" <=> SchemaOK(schema)
       /\ result.ret = "raise" => result.exc \in {"SchemaValidationError", "TypeError"}

\* C1: on a schema mapping whose tables carry pairwise distinct names,
\* validate_schema returns True exactly when every table, column, primary key
\* and foreign key is as listed, and raises SchemaValidationError otherwise.
C1_TrueIffValidElseSVE ==
    (Done /\ TopLevelOK(schema) /\ DistinctTableNames(schema)) =>
       IF SchemaOK(schema) THEN result.ret = "True" ELSE RaisedSVE

\* the least element of a non-empty set of numbers
Least(S) == CHOOSE n \in S : \A m \in S : n <= m

\* what the first pass records for a table name: the column names of the last
\* table that carries it
RecordedColumns(s, name) ==
    LET at == {i \in 1..Len(TablesOf(s)) : TablesOf(s)[i] \in TablesNamed(s, name)}
    IN IF at = {} THEN {}
       ELSE ColumnNames(TablesOf(s)[CHOOSE i \in at : \A j \in at : j <= i])

\* the checks of a foreign key before the one of ref_table
FkLocalOK(s, t, fk) ==
    /\ IsDict(fk)
    /\ Has(fk, "name") /\ Has(fk, "columns") /\ Has(fk, "ref_table") /\ Has(fk, "ref_columns")
    /\ NonEmptyStr(Get(fk, "name"))
    /\ IsList(Get(fk, "columns")) /\ Len(Get(fk, "columns").val) > 0
    /\ \A e \in Range(Get(fk, "columns").val) :
          IsStr(e) /\ e.val \in RecordedColumns(s, Get(t, "name").val)

\* the checks of a foreign key before the one of the lengths
FkRefOK(s, t, fk) ==
    /\ FkLocalOK(s, t, fk)
    /\ NonEmptyStr(Get(fk, "ref_table"))
    /\ ~DanglingRefTable(s, fk)
    /\ IsList(Get(fk, "ref_columns")) /\ Len(Get(fk, "ref_columns").val) > 0
    /\ \A e \in Range(Get(fk, "ref_columns").val) :
          IsStr(e) /\ e.val \in RecordedColumns(s, Get(fk, "ref_table").val)

\* the foreign key passes every check against the recorded names
FkPasses(s, t, fk) == FkRefOK(s, t, fk) /\ ~ArityMismatch(fk)

\* the foreign keys of table i of s (1-based) that do not pass
BadForeignKeys(s, i) ==
    LET t == TablesOf(s)[i]
    IN {n \in 1..Len(ForeignKeysOf(t)) : ~FkPasses(s, t, ForeignKeysOf(t)[n])}

\* the tables of s (all of them well-formed) with a fault in their foreign keys
TablesWithBadForeignKeys(s) ==
    {i \in 1..Len(TablesOf(s)) :
        \/ Has(TablesOf(s)[i], "foreign_keys") /\ ~IsList(Get(TablesOf(s)[i], "foreign_keys"))
        \/ BadForeignKeys(s, i) # {}}

\* the checks of a table made before its columns are looked at
TableHeadOK(t) ==
    /\ IsDict(t)
    /\ Has(t, "name") /\ Has(t, "columns") /\ Has(t, "primary_key")
    /\ NonEmptyStr(Get(t, "name"))
    /\ IsList(Get(t, "columns")) /\ Len(Get(t, "columns").val) > 0

BadColumns(t) ==
    {j \in 1..Len(Get(t, "columns").val) :
        \/ ~ColumnOK(Get(t, "columns").val[j])
        \/ \E i \in 1..(j - 1) : SameName(t, i, j)}

BadPrimaryKeyEntries(t) ==
    {n \in 1..Len(Get(t, "primary_key").val) : ~IsColumnOf(Get(t, "primary_key").val[n], t)}

\* the outcome is the failure of the first check that table i of s (1-based) fails
ReportsFirstFaultOf(s, i) ==
    LET t == TablesOf(s)[i] IN
    /\ result.ret = "raise"
    /\ result.tbl = i - 1
    /\ IF ~TableHeadOK(t) THEN result.at = "table"
       ELSE IF BadColumns(t) # {}
       THEN result.at \in {"column", "duplicate"} /\ result.pos = Least(BadColumns(t)) - 1
       ELSE IF ~IsList(Get(t, "primary_key")) THEN result.at = "table"
       ELSE result.at = "primary_key" /\ result.pos = Least(BadPrimaryKeyEntries(t)) - 1

\* the outcome is the failure of the first foreign key of s that does not pass
ReportsFirstForeignKeyFault(s) ==
    LET i == Least(TablesWithBadForeignKeys(s))
        t == TablesOf(s)[i]
    IN /\ result.ret = "raise"
       /\ result.tbl = i - 1
       /\ IF ~IsList(Get(t, "foreign_keys")) THEN result.at = "foreign_keys"
          ELSE result.at = "foreign_key" /\ result.pos = Least(BadForeignKeys(s, i)) - 1

\* C3: validate_schema reports one error, the first violation in the order:
\* top-level shape; each table in list order, its columns in order and then
\* its primary-key entries in order; and only when all tables passed, the
\* foreign keys by table and then by key. A fault of any table's structure,
\* columns or primary key is reported before any foreign-key fault.
C3_FirstViolationInDocumentOrder ==
    Done =>
       IF ~TopLevelOK(schema) THEN result.ret = "raise" /\ result.at = "schema"
       ELSE LET bad == {i \in 1..Len(TablesOf(schema)) : ~TableOK(TablesOf(schema)[i])}
            IN IF bad # {} THEN ReportsFirstFaultOf(schema, Least(bad))
               ELSE IF TablesWithBadForeignKeys(schema) # {}
               THEN ReportsFirstForeignKeyFault(schema)
               ELSE result.ret = "True"

\* C3 witness: a table after the first is rejected for its structure although
\* the first table carries a foreign key that does not pass
C3_Witness ==
    /\ Done /\ result.ret = "raise" /\ result.tbl = 1
    /\ result.at \in {"table", "column", "duplicate", "primary_key"}
    /\ TableOK(TablesOf(schema)[1])
    /\ BadForeignKeys(schema, 1) # {}

\* the foreign keys of s, as pairs <<table, key>> of 1-based positions
ForeignKeyPositions(s) ==
    UNION { {<<i, n>> : n \in 1..Len(ForeignKeysOf(TablesOf(s)[i]))} : i \in 1..Len(TablesOf(s)) }
FkAt(s, p) == ForeignKeysOf(TablesOf(s)[p[1]])[p[2]]

\* no table before table i has a fault in its foreign keys, and no foreign key
\* of table i before key n fails
FirstToFail(s, p) ==
    /\ \A i \in TablesWithBadForeignKeys(s) : i >= p[1]
    /\ IsList(Get(TablesOf(s)[p[1]], "foreign_keys"))
    /\ \A n \in BadForeignKeys(s, p[1]) : n >= p[2]

C6_DuplicateColumnRejectedPerTable ==
    Done =>
       /\ (\E t \in Range(TablesOf(schema)) : HasDuplicateColumn(t)) => result.ret # "True"
       /\ (RaisedSVE /\ result.at = "duplicate") =>
             /\ Contains(result.msg, "Duplicate column name")
             /\ \E i \in 1..result.pos : SameName(TablesOf(schema)[result.tbl + 1], i, result.pos + 1)
       /\ (TopLevelOK(schema) /\ DistinctTableNames(schema) /\ SchemaOK(schema)) => result.ret = "True"

\* C6 witness: the second table is rejected for its third column, which
\* repeats its first under another type, after a first table with the same
\* column names has passed
C6_Witness ==
    /\ RaisedSVE /\ result.at = "duplicate" /\ result.tbl = 1 /\ result.pos = 2
    /\ ColumnNames(TablesOf(schema)[1]) \cap ColumnNames(TablesOf(schema)[2]) # {}
    /\ LET cols == Get(TablesOf(schema)[2], "columns").val
       IN Get(cols[1], "type") # Get(cols[3], "type")

\* C7: a schema in which some primary_key entry is not the name of a column of
\* its own table is rejected (a column of another table does not count); the
\* primary-key error is raised for such an entry only, and a schema that is
\* valid is accepted also with an empty primary_key or one that repeats a name.
C7_DanglingPrimaryKeyRejected ==
    Done =>
       /\ (\E t \in Range(TablesOf(schema)) : HasDanglingPrimaryKey(t)) => result.ret # "True"
       /\ (Rejected /\ result.at = "primary_key") =>
             LET t == TablesOf(schema)[result.tbl + 1]
             IN ~IsColumnOf(Get(t, "primary_key").val[result.pos + 1], t)
       /\ (TopLevelOK(schema) /\ DistinctTableNames(schema) /\ SchemaOK(schema)) => result.ret = "True"

\* C7 witness: a table is rejected for a primary-key entry that names a column
\* of the other table only
C7_Witness ==
    /\ RaisedSVE /\ result.at = "primary_key"
    /\ LET t == TablesOf(schema)[result.tbl + 1]
           e == Get(t, "primary_key").val[result.pos + 1]
       IN /\ IsStr(e)
          /\ \E u \in Range(TablesOf(schema)) : u # t /\ IsColumnOf(e, u)

\* accepted schemas with an empty primary key and with a repeated one
C7_AcceptsEmptyAndRepeated ==
    /\ Accepted
    /\ \E t \in Range(TablesOf(schema)) : Len(Get(t, "primary_key").val) = 0
    /\ \E t \in Range(TablesOf(schema)) :
          LET pk == Get(t, "primary_key").val IN Len(pk) = 2 /\ pk[1] = pk[2]

\* C8: when validate_schema accepts a raw parser record R, building the AST
\* from R and serializing it gives a mapping that validate_schema accepts too.
C8_RoundTripStaysValid ==
    (phase = 2 /\ first_result.ret = "True") =>
       /\ pc # "failed"
       /\ Done => result.ret = "True"

\* C8 witness: an accepted record whose round trip differs from it (the
\* transient flag, a null or empty constraints, an empty foreign_keys) and is
\* accepted
C8_Witness ==
    /\ phase = 2 /\ first_result.ret = "True" /\ Accepted
    /\ schema # raw
    /\ \E t \in Range(TablesOf(raw)) : Len(ForeignKeysOf(t)) > 0

-----------------------------------------------------------------------------
(* What the SQL of a run declares, read off the statements' decl *)

DeclaresTable(stmt) == stmt.type = "CREATE" /\ stmt.decl.table # ""

\* the indices among the first n statements of those that declare a table
DeclaringIndices(st, n) ==
    SelectSeq([i \in 1..n |-> i], LAMBDA i : DeclaresTable(st[i]))

DeclaredColumns(d) == SelectSeq(d.frags, LAMBDA f : f.kind = "column")
DeclaredColumnNames(d) == {f.name : f \in Range(DeclaredColumns(d))}
DeclaredForeignKeys(d) == SelectSeq(d.frags, LAMBDA f : f.kind = "foreign_key")

\* what a fragment adds to the primary key: the list of a standalone clause,
\* the name of a column defined with an inline PRIMARY KEY
PrimaryKeyOf(f) ==
    IF f.kind = "primary_key" THEN f.cols
    ELSE IF f.kind = "column" /\ f.inline_pk THEN <<f.name>>
    ELSE <<>>

DeclaredPrimaryKey(d) == Concat([n \in 1..Len(d.frags) |-> PrimaryKeyOf(d.frags[n])])

\* the same over the fragments that are columns of the parsed table or
\* standalone clauses
IsParsedColumn(f, columns) ==
    f.kind = "column" /\ \E c \in Range(columns) : Get(c, "name").val = f.name

ParsedPrimaryKey(d, columns) ==
    Concat([n \in 1..Len(d.frags) |->
              IF d.frags[n].kind = "column" /\ ~IsParsedColumn(d.frags[n], columns) THEN <<>>
              ELSE PrimaryKeyOf(d.frags[n])])

\* the input class of the end-to-end claim
IsValidSql(st) ==
    /\ \A i \in 1..Len(st) : DeclaresTable(st[i])
    /\ \A i, j \in 1..Len(st) : i # j => st[i].decl.table # st[j].decl.table
    /\ \A i \in 1..Len(st) :
          /\ Len(DeclaredColumns(st[i].decl)) >= 1
          /\ \A m, n \in 1..Len(DeclaredColumns(st[i].decl)) :
                m # n => DeclaredColumns(st[i].decl)[m].name # DeclaredColumns(st[i].decl)[n].name
          /\ Range(DeclaredPrimaryKey(st[i].decl)) \subseteq DeclaredColumnNames(st[i].decl)
          /\ \A f \in Range(DeclaredForeignKeys(st[i].decl)) :
                /\ Range(f.cols) \subseteq DeclaredColumnNames(st[i].decl)
                /\ Len(f.cols) = Len(f.ref_cols)
                /\ \E j \in 1..Len(st) :
                      /\ st[j].decl.table = f.ref_table
                      /\ Range(f.ref_cols) \subseteq DeclaredColumnNames(st[j].decl)

\* the serialized table t is the table d declares: name, primary key and
\* foreign-key column lists in declared order
IsDeclaredTable(t, d) ==
    /\ Get(t, "name") = Str(d.table)
    /\ Get(t, "primary_key") = Names(DeclaredPrimaryKey(d))
    /\ Len(ForeignKeysOf(t)) = Len(DeclaredForeignKeys(d))
    /\ \A n \in 1..Len(ForeignKeysOf(t)) :
          /\ Get(ForeignKeysOf(t)[n], "columns") = Names(DeclaredForeignKeys(d)[n].cols)
          /\ Get(ForeignKeysOf(t)[n], "ref_table") = Str(DeclaredForeignKeys(d)[n].ref_table)
          /\ Get(ForeignKeysOf(t)[n], "ref_columns") = Names(DeclaredForeignKeys(d)[n].ref_cols)

PipelineAccepts ==
    /\ pc # "failed"
    /\ Done =>
          /\ result.ret = "True"
          /\ Len(TablesOf(schema)) = Len(statements)
          /\ \A i \in 1..Len(statements) : IsDeclaredTable(TablesOf(schema)[i], statements[i].decl)

\* C2: for every input of valid CREATE TABLE statements the pipeline
\* parse_sql_string -> ASTBuilder.build -> schema_to_dict -> validate_schema
\* returns True, with the tables in statement order and each primary_key and
\* foreign-key column list in declared order.
C2_ValidSqlIsAccepted ==
    (phase = 0 /\ IsValidSql(statements)) => PipelineAccepts

\* no declared column has a name that starts with the keyword CONSTRAINT
PlainColumnNames(st) ==
    \A i \in 1..Len(st) : \A f \in Range(DeclaredColumns(st[i].decl)) :
        ~WordAt(f.name, 1, "CONSTRAINT")

\* the same holds of the inputs whose column names are plain
ValidPlainSqlIsAccepted ==
    (phase = 0 /\ IsValidSql(statements) /\ PlainColumnNames(statements)) => PipelineAccepts

\* a valid input of two tables, the first referencing the second, is accepted
ValidPlainSqlWitness ==
    /\ phase = 0 /\ Accepted /\ IsValidSql(statements) /\ Len(statements) = 2
    /\ \E f \in Range(DeclaredForeignKeys(statements[1].decl)) :
          f.ref_table = statements[2].decl.table

\* C9: at every point of the loop of parse_sql_string, tables holds exactly the
\* records of the statements passed so far whose kind is CREATE and that have
\* a table name, in statement order, each as it is parsed on its own; every
\* other statement adds nothing; the loop ends and returns them.
C9_TablesAreTheCreateTableRecords ==
    phase = 0 =>
       /\ Len(parsed_tables) = Len(DeclaringIndices(statements, stmt_no - 1))
       /\ \A k \in 1..Len(parsed_tables) :
             /\ Get(parsed_tables[k], "name").val
                   = statements[DeclaringIndices(statements, stmt_no - 1)[k]].decl.table
             /\ parsed_tables[k]
                   = _parse_create_table(statements[DeclaringIndices(statements, stmt_no - 1)[k]])
       /\ pc # "parse" => /\ stmt_no = Len(statements) + 1
                          /\ raw = Dct([tables |-> Lst(parsed_tables)])

\* C9 witness: a script of a CREATE TABLE, a statement that declares no table
\* and another CREATE TABLE has returned the two records in that order
C9_Witness ==
    /\ phase = 0 /\ pc = "parsed" /\ Len(statements) = MaxStmts
    /\ DeclaresTable(statements[1]) /\ ~DeclaresTable(statements[2])
    /\ DeclaresTable(statements[Len(statements)])
    /\ Len(parsed_tables) = Len(statements) - 1
    /\ Get(parsed_tables[1], "name").val = statements[1].decl.table
    /\ Get(parsed_tables[Len(parsed_tables)], "name").val = statements[Len(statements)].decl.table

\* C10: for every table body, the parsed primary_key is the concatenation, in
\* the order of the fragments of the body, of the column list of each
\* standalone PRIMARY KEY (...) fragment and of the name of each column whose
\* definition carries an inline PRIMARY KEY, with nothing removed and nothing
\* added.
C10_PrimaryKeyIsTheConcatenation ==
    phase = 0 =>
       \A k \in 1..Len(parsed_tables) :
          Get(parsed_tables[k], "primary_key")
             = Names(DeclaredPrimaryKey(statements[DeclaringIndices(statements, stmt_no - 1)[k]].decl))

\* the concatenation holds over the standalone clauses and the columns that
\* the parser has put into the table
PrimaryKeyOfParsedColumns ==
    phase = 0 =>
       \A k \in 1..Len(parsed_tables) :
          Get(parsed_tables[k], "primary_key")
             = Names(ParsedPrimaryKey(statements[DeclaringIndices(statements, stmt_no - 1)[k]].decl,
                                      Get(parsed_tables[k], "columns").val))

\* an inline key, a standalone key and an inline key again, the last two
\* naming the same column, are all kept
PrimaryKeyKeepsRepeats ==
    /\ phase = 0
    /\ \E k \in 1..Len(parsed_tables) :
          /\ Get(parsed_tables[k], "primary_key") = Names(<<"b", "a", "a">>)
          /\ Len(Get(parsed_tables[k], "columns").val) = 2

\* every foreign key of every table of s names columns of its own table and
\* columns of a table that carries the name ref_table
ReferencesResolve(s) ==
    \A t \in Range(TablesOf(s)) : \A fk \in Range(ForeignKeysOf(t)) :
       /\ \A e \in Range(Get(fk, "columns").val) : IsColumnOf(e, t)
       /\ \A e \in Range(Get(fk, "ref_columns").val) :
             \E r \in TablesNamed(s, Get(fk, "ref_table").val) : IsColumnOf(e, r)

\* C12: for every schema, also one in which two tables share a name, if
\* validate_schema returns True then every entry of the columns of every
\* foreign key of a table T is the name of a column of T itself, and every
\* entry of ref_columns is the name of a column of a table named ref_table.
C12_AcceptedReferencesResolve ==
    Accepted => ReferencesResolve(schema)

\* the same holds of the schemas whose tables carry distinct names
AcceptedReferencesResolveDistinct ==
    (Accepted /\ DistinctTableNames(schema)) => ReferencesResolve(schema)

\* an accepted schema of two tables with distinct names and a foreign key
AcceptedReferencesWitness ==
    /\ Accepted /\ DistinctTableNames(schema) /\ Len(TablesOf(schema)) = 2
    /\ \E t \in Range(TablesOf(schema)) : Len(ForeignKeysOf(t)) > 0

\* the mapping col_dict of Column col: name and type, and constraints exactly
\* when col has a non-empty string there (constraints is Optional[str])
ColumnDictAsClaimed(col, col_dict) ==
    /\ DOMAIN col_dict.val \subseteq {"name", "type", "constraints"}
    /\ Has(col_dict, "name") /\ Has(col_dict, "type")
    /\ col.constraints.kind \in {"none", "str"} =>
          /\ Has(col_dict, "constraints") <=> NonEmptyStr(col.constraints)
          /\ Has(col_dict, "constraints") => Get(col_dict, "constraints") = col.constraints

\* the mapping table_dict of Table table
TableDictAsClaimed(table, table_dict) ==
    /\ DOMAIN table_dict.val \subseteq {"name", "columns", "primary_key", "foreign_keys"}
    /\ Has(table_dict, "name") /\ Has(table_dict, "columns") /\ Has(table_dict, "primary_key")
    /\ Get(table_dict, "primary_key") = table.primary_key
    /\ Has(table_dict, "foreign_keys") <=> Len(table.foreign_keys) > 0
    /\ Has(table_dict, "foreign_keys") =>
          Len(Get(table_dict, "foreign_keys").val) = Len(table.foreign_keys)
    /\ Len(Get(table_dict, "columns").val) = Len(table.columns)
    /\ \A n \in 1..Len(table.columns) :
          ColumnDictAsClaimed(table.columns[n], Get(table_dict, "columns").val[n])

SchemaDictAsClaimed(ast, s) ==
    /\ Len(TablesOf(s)) = Len(ast.tables)
    /\ \A n \in 1..Len(ast.tables) : TableDictAsClaimed(ast.tables[n], TablesOf(s)[n])

\* C13: in the mapping schema_to_dict produces, a column carries 'constraints'
\* exactly when the Column's constraints is a non-empty string, a table
\* carries 'foreign_keys' exactly when the Table has a foreign key, and every
\* table carries 'name', 'columns' and 'primary_key', also an empty one; no
\* optional key is emitted with a null or empty value.
C13_OptionalKeysOmitted ==
    (phase = 2 /\ pc # "failed") => SchemaDictAsClaimed(build(raw).value, schema)

\* C13 witness: the mapping of a table without foreign keys and with an empty
\* primary key, one column with constraints and one with none
C13_Witness ==
    /\ phase = 2 /\ pc # "failed"
    /\ \E n \in 1..Len(TablesOf(schema)) :
          /\ Get(TablesOf(raw)[n], "foreign_keys") = Lst(<<>>)
          /\ ~Has(TablesOf(schema)[n], "foreign_keys")
          /\ Get(TablesOf(schema)[n], "primary_key") = Lst(<<>>)
          /\ Get(Get(TablesOf(raw)[n], "columns").val[1], "constraints") = NoneV
          /\ ~Has(Get(TablesOf(schema)[n], "columns").val[1], "constraints")
          /\ Has(Get(TablesOf(schema)[n], "columns").val[2], "constraints")

\* C15: validate_schema is total over generic input: for every value passed
\* to it, it returns True or raises SchemaValidationError and never ends with
\* another kind of exception.
C15_TrueOrSchemaValidationError ==
    Done => (result.ret = "True" \/ RaisedSVE)

\* the other exception is always the TypeError of a set lookup with an entry
\* that cannot be hashed, in a primary_key or in the columns or ref_columns of
\* a foreign key
OnlyTypeErrorOfLookup ==
    (Done /\ result.ret = "raise" /\ ~RaisedSVE) =>
       /\ result.exc = "TypeError"
       /\ \E t \in Range(TablesOf(schema)) :
             \/ /\ IsDict(t) /\ Has(t, "primary_key") /\ IsList(Get(t, "primary_key"))
                /\ \E e \in Range(Get(t, "primary_key").val) : ~Hashable(e)
             \/ \E fk \in Range(ForeignKeysOf(t)) : \E f \in {"columns", "ref_columns"} :
                   IsDict(fk) /\ Has(fk, f) /\ IsList(Get(fk, f))
                   /\ \E e \in Range(Get(fk, f).val) : ~Hashable(e)

-----------------------------------------------------------------------------
(* Claims about the functions of the parser called on their own *)

Returned(fn) == phase = 3 /\ pc = "returned" /\ call.fn = fn

\* the nesting depth in front of index i of text: +1 on (, -1 on )
RECURSIVE NestingDepth(_, _)
NestingDepth(text, i) ==
    IF i <= 1 THEN 0
    ELSE NestingDepth(text, i - 1)
            + (IF Ch(text, i - 1) = "(" THEN 1 ELSE IF Ch(text, i - 1) = ")" THEN -1 ELSE 0)

\* the commas of text at depth zero
TopLevelCommas(text) == {i \in 1..Len(text) : Ch(text, i) = "," /\ NestingDepth(text, i) = 0}

\* where parts, written one after the other with a comma in between, have
\* their commas in between
RECURSIVE PartsLength(_, _)
PartsLength(parts, k) == IF k = 0 THEN 0 ELSE PartsLength(parts, k - 1) + Len(parts[k]) + 1
SplitPoints(parts) == {PartsLength(parts, k) : k \in 1..(Len(parts) - 1)}

\* parts partition text at exactly its commas of depth zero
PartitionsAtTopLevelCommas(parts, text) ==
    /\ Join(parts, ",") = text
    /\ SplitPoints(parts) = TopLevelCommas(text)

\* C14: _split_by_comma(text) partitions text at exactly its commas of
\* parenthesis depth zero, and the returned parts, joined with ',', give back
\* text, for every text, balanced or not.
C14_SplitPartitionsText ==
    Returned("_split_by_comma") => PartitionsAtTopLevelCommas(returned, call.arg)

\* text without its last character when that is a comma of depth zero
WithoutFinalComma(text) ==
    IF Len(text) \in TopLevelCommas(text) THEN SubSeq(text, 1, Len(text) - 1) ELSE text

\* C14 amended: the same of text without a final comma of depth zero: the part
\* after the last split point is returned only when it is not empty
C14_SplitPartitionsTextButFinalComma ==
    Returned("_split_by_comma") =>
       /\ PartitionsAtTopLevelCommas(returned, WithoutFinalComma(call.arg))
       /\ Len(returned) = 0 <=> call.arg = ""

\* C14 witness: an unbalanced text that ends with a comma of depth zero and
\* has a comma at another depth is split at the commas of depth zero only
C14_Witness ==
    /\ Returned("_split_by_comma")
    /\ Len(returned) = 2
    /\ Len(call.arg) \in TopLevelCommas(call.arg)
    /\ \E i \in 1..Len(call.arg) : Ch(call.arg, i) = "," /\ NestingDepth(call.arg, i) # 0

\* the ) that returns the nesting depth to what it was in front of the ( at
\* index a of text, 0 when there is none
MatchingParen(text, a) ==
    MinOr({z \in (a + 1)..Len(text) :
              Ch(text, z) = ")" /\ NestingDepth(text, z + 1) = NestingDepth(text, a)}, 0)

\* the text strictly between the ( at index a and the ) at index z
Between(text, a, z) ==
    IF a <= Len(text) /\ z > a THEN [ok |-> TRUE, group |-> SubSeq(text, a + 1, z - 1)]
    ELSE [ok |-> FALSE, group |-> ""]

\* the text strictly between the first ( of text and the ) that matches it
MatchedBody(text) == Between(text, Find(text, 1, {"("}), MatchingParen(text, Find(text, 1, {"("})))

BodyExtracted == phase = 3 /\ call.fn = "_parse_create_table" /\ pc \in {"parts", "returned"}

BodyIs(body) ==
    /\ frame.paren_match.ok = body.ok
    /\ body.ok => frame.paren_match.group = body.group

\* C16: for every CREATE TABLE statement text, the body handed to the comma
\* splitter is the text strictly between the first '(' of the statement and
\* the ')' that matches it, also when further parenthesized content follows
\* the column list.
C16_BodyEndsAtMatchingParen ==
    BodyExtracted => BodyIs(MatchedBody(call.arg.text))

\* the same holds of the statements in which no ) follows the matching one
BodyEndsAtMatchingParenWhenLast ==
    (BodyExtracted
       /\ FindLast(call.arg.text, Len(call.arg.text), {")"})
             = MatchingParen(call.arg.text, Find(call.arg.text, 1, {"("})))
    => BodyIs(MatchedBody(call.arg.text))

\* a body with nested parentheses that nothing follows
BodyEndsAtMatchingParenWitness ==
    /\ BodyExtracted /\ frame.paren_match.ok
    /\ \E i \in 1..Len(frame.paren_match.group) : Ch(frame.paren_match.group, i) = ")"
    /\ frame.paren_match.group = MatchedBody(call.arg.text).group

NameFound == phase = 3 /\ call.fn = "_parse_create_table" /\ pc \in {"body", "parts", "returned"}

\* C17: the table name is the identifier token that directly follows the
\* TABLE keyword of CREATE ... TABLE, whitespace tokens aside, stripped of its
\* quote characters; if that token is no identifier, no name is found and the
\* statement yields no table.
C17_NameDirectlyFollowsTable ==
    NameFound =>
       /\ frame.table_name = call.decl.table
       /\ (pc = "returned" /\ call.decl.table = "") => returned = NoneV

\* the first token of tokens that is no whitespace
FirstToken(tokens) ==
    SelectSeq(tokens, LAMBDA t : t.ttype # "Text.Whitespace")[1]

\* the tokens of a statement after its TABLE keyword
AfterTable(tokens) ==
    SubSeq(tokens, MinOr({n \in 1..Len(tokens) : tokens[n] = Keyword("TABLE")}, Len(tokens)) + 1,
           Len(tokens))

\* the same holds of the statements without a TABLE keyword and of those in
\* which a token of type Name follows it
NameDirectlyFollowsTableWhenName ==
    (NameFound /\ (call.decl.table = "" => AfterTable(call.arg.tokens) = <<>>)
               /\ (call.decl.table # "" => FirstToken(AfterTable(call.arg.tokens)).ttype = "Name"))
    => /\ frame.table_name = call.decl.table
       /\ (pc = "returned" /\ call.decl.table = "") => returned = NoneV

\* a bracketed name after TEMPORARY TABLE is found and stripped
NameDirectlyFollowsTableWitness ==
    /\ NameFound /\ pc = "returned" /\ frame.table_name = "t"
    /\ FirstToken(AfterTable(call.arg.tokens)).value = "[t]"
    /\ Get(returned, "name") = Str("t")

\* the strings of a list of strings
Strings(list) == [n \in 1..Len(list.val) |-> list.val[n].val]

\* the names joined with _
RECURSIVE Underscored(_)
Underscored(names) ==
    IF Len(names) = 0 THEN ""
    ELSE IF Len(names) = 1 THEN names[1]
    ELSE names[1] \o "_" \o Underscored(Tail(names))

\* the name the fragment of call.decl is to get
NameAsWritten ==
    IF call.decl.name # "" THEN call.decl.name
    ELSE "fk_" \o call.decl.ref_table \o "_" \o Underscored(call.decl.cols)

ForeignKeyParsed == Returned("_parse_foreign_key") /\ returned.kind # "none"

\* C11: a foreign-key fragment that parses is named by the identifier after
\* CONSTRAINT, quoting stripped, when it carries one, and fk_<ref_table>_<local
\* columns joined with _> when it carries none; the name is never empty.
C11_ForeignKeyNamedAsWritten ==
    ForeignKeyParsed =>
        /\ Get(returned, "name").val = NameAsWritten
        /\ Get(returned, "name").val # ""

\* the letters CONSTRAINT occur in the fragment only as its first word
ConstraintOnlyLeads == \A i \in 2..Len(call.arg) : ~WordAt(call.arg, i, "CONSTRAINT")

\* the same for the fragments where CONSTRAINT is not also the end of a name
ForeignKeyNamedAsWrittenWhenKeyword ==
    ForeignKeyParsed /\ ConstraintOnlyLeads =>
        /\ Get(returned, "name").val = NameAsWritten
        /\ Get(returned, "name").val # ""

ForeignKeyNamedAsWrittenWitness ==
    /\ ForeignKeyParsed
    /\ call.arg = "FOREIGN KEY (c) REFERENCES other(d)"
    /\ Get(returned, "name").val = "fk_other_c"

ForeignKeyNamedByConstraintWitness ==
    /\ ForeignKeyParsed
    /\ call.decl.name = "fk1"
    /\ Get(returned, "name").val = "fk1"

\* the fragment of call.decl is written as identifier TYPE [rest]
IsColumnFragment == call.decl.starts = "" /\ call.decl.name # ""

Classified == Returned("part")

\* the fragment added exactly one column, named name, and no foreign key
YieldsColumnNamed(name) ==
    /\ Len(returned.columns) = Len(call.arg.defs.columns) + 1
    /\ SubSeq(returned.columns, 1, Len(call.arg.defs.columns)) = call.arg.defs.columns
    /\ Get(returned.columns[Len(returned.columns)], "name").val = name
    /\ returned.foreign_keys = call.arg.defs.foreign_keys

\* a fragment is of one kind only: it adds at most one record, a column or a
\* foreign key, and a primary-key clause adds neither
OfOneKind ==
    /\ Len(returned.columns) + Len(returned.foreign_keys)
           <= Len(call.arg.defs.columns) + Len(call.arg.defs.foreign_keys) + 1
    /\ call.decl.starts = "PRIMARY KEY" =>
           /\ returned.columns = call.arg.defs.columns
           /\ returned.foreign_keys = call.arg.defs.foreign_keys
    /\ call.decl.starts \in {"FOREIGN KEY", "CONSTRAINT"} =>
           returned.columns = call.arg.defs.columns

\* C18: every fragment of a body is of exactly one kind, and a fragment
\* identifier TYPE [rest] whose identifier is none of PRIMARY, FOREIGN and
\* CONSTRAINT is a column definition: it yields exactly one column, named by
\* the identifier, however the identifier is spelled.
C18_IdentifierTypeIsColumn ==
    Classified =>
        /\ OfOneKind
        /\ IsColumnFragment => YieldsColumnNamed(call.decl.name)

\* the same for the identifiers that do not begin with the letters CONSTRAINT
IdentifierTypeIsColumnUnlessConstraintLeads ==
    Classified =>
        /\ OfOneKind
        /\ IsColumnFragment /\ ~WordAt(call.decl.name, 1, "CONSTRAINT") =>
               YieldsColumnNamed(call.decl.name)

IdentifierTypeIsColumnWitness ==
    /\ Classified
    /\ IsColumnFragment
    /\ call.decl.name = "b"
    /\ call.arg.defs = SomeDefinitions
    /\ Len(call.decl.words) = 2
    /\ YieldsColumnNamed("b")

\* the column Constraint_Id is dropped
ConstraintLeadingIdentifierDropped ==
    /\ Classified
    /\ call.arg.part = "Constraint_Id INT PRIMARY KEY"
    /\ returned = call.arg.defs

\* the fragment of call.decl begins with FOREIGN KEY or CONSTRAINT
IsConstraintFragment == call.decl.starts \in {"FOREIGN KEY", "CONSTRAINT"}

\* it has a FOREIGN KEY (cols) part and a REFERENCES table (cols) part
HasBothParts == call.decl.cols # <<>> /\ call.decl.ref_cols # <<>>

\* the fragment added one foreign key, of the columns written, and nothing else
YieldsForeignKey ==
    /\ returned.columns = call.arg.defs.columns
    /\ returned.primary_key = call.arg.defs.primary_key
    /\ Len(returned.foreign_keys) = Len(call.arg.defs.foreign_keys) + 1
    /\ SubSeq(returned.foreign_keys, 1, Len(call.arg.defs.foreign_keys))
           = call.arg.defs.foreign_keys
    /\ Strings(Get(returned.foreign_keys[Len(returned.foreign_keys)], "columns"))
           = call.decl.cols
    /\ Strings(Get(returned.foreign_keys[Len(returned.foreign_keys)], "ref_columns"))
           = call.decl.ref_cols
    /\ Get(returned.foreign_keys[Len(returned.foreign_keys)], "ref_table").val
           = call.decl.ref_table

\* C19: a fragment beginning with FOREIGN KEY or CONSTRAINT yields one
\* foreign-key record iff it has both a FOREIGN KEY (cols) and a REFERENCES
\* table (cols) part, columns and ref_columns as written, their lengths not
\* compared; otherwise it is dropped and columns, primary_key and foreign
\* keys stay as they were, also for CONSTRAINT n PRIMARY KEY (a).
C19_ForeignKeyIffBothParts ==
    Classified /\ IsConstraintFragment =>
        IF HasBothParts THEN YieldsForeignKey ELSE returned = call.arg.defs

C19_Witness ==
    /\ Classified
    /\ call.decl.starts = "CONSTRAINT"
    /\ call.arg.defs = SomeDefinitions
    /\ Len(call.decl.cols) = 2
    /\ Len(call.decl.ref_cols) = 1
    /\ YieldsForeignKey

NamedPrimaryKeyDropped ==
    /\ Classified
    /\ call.arg.part = "CONSTRAINT fk_ab PRIMARY KEY (a)"
    /\ call.arg.defs = SomeDefinitions
    /\ returned = SomeDefinitions

ColumnParsed == Returned("_parse_column_definition")

\* a word that is the phrase PRIMARY KEY by itself
IsPhrase(word) == word \in {"PRIMARY KEY", "primary \t key"}

\* the phrase begins at word i of words
PhraseAtWord(words, i) ==
    \/ IsPhrase(words[i])
    \/ i < Len(words) /\ words[i] = "PRIMARY" /\ words[i + 1] = "KEY"

\* the words contain the phrase PRIMARY KEY
PhraseWritten(words) == \E i \in 1..Len(words) : PhraseAtWord(words, i)

\* s contains the phrase PRIMARY KEY, in any case, with any run of whitespace
ContainsPhrase(s) ==
    \E i \in 1..Len(s) : \E j \in (i + Len("PRIMARY") + 1)..Len(s) :
        /\ WordAt(s, i, "PRIMARY")
        /\ \A k \in (i + Len("PRIMARY"))..(j - 1) : Ch(s, k) \in Whitespace
        /\ WordAt(s, j, "KEY")

\* constraints is None, or a string that is not empty and has no whitespace
\* at either end
ConstraintsTrimmed(constraints) ==
    \/ constraints = NoneV
    \/ /\ constraints.kind = "str"
       /\ constraints.val # ""
       /\ Ch(constraints.val, 1) \notin Whitespace
       /\ Ch(constraints.val, Len(constraints.val)) \notin Whitespace

ConstraintsContainPhrase(constraints) ==
    constraints # NoneV /\ ContainsPhrase(constraints.val)

\* C20: a column fragment of at least two pieces has is_primary_key true
\* exactly when the text after the type contains the phrase PRIMARY KEY; its
\* constraints is None or a non-empty string without whitespace at its ends;
\* when is_primary_key is true constraints does not contain the phrase. A
\* fragment of fewer than two pieces yields no column.
C20_ConstraintsWithoutPhrase ==
    ColumnParsed =>
        IF call.decl.name = "" THEN returned = NoneV
        ELSE /\ returned # NoneV
             /\ Get(returned, "is_primary_key").val = PhraseWritten(call.decl.words)
             /\ ConstraintsTrimmed(Get(returned, "constraints"))
             /\ Get(returned, "is_primary_key").val =>
                    ~ConstraintsContainPhrase(Get(returned, "constraints"))

\* the words left when each occurrence of the phrase, found from the left, is
\* cut out
RECURSIVE PhrasesCut(_)
PhrasesCut(words) ==
    IF Len(words) = 0 THEN <<>>
    ELSE IF IsPhrase(words[1]) THEN PhrasesCut(Tail(words))
    ELSE IF PhraseAtWord(words, 1) THEN PhrasesCut(Tail(Tail(words)))
    ELSE <<words[1]>> \o PhrasesCut(Tail(words))

\* the same, but constraints contains the phrase when cutting the occurrences
\* out has put a PRIMARY in front of a KEY
ConstraintsWithoutPhraseUnlessJoined ==
    ColumnParsed =>
        IF call.decl.name = "" THEN returned = NoneV
        ELSE /\ returned # NoneV
             /\ Get(returned, "is_primary_key").val = PhraseWritten(call.decl.words)
             /\ ConstraintsTrimmed(Get(returned, "constraints"))
             /\ Get(returned, "is_primary_key").val =>
                    (ConstraintsContainPhrase(Get(returned, "constraints"))
                         <=> PhraseWritten(PhrasesCut(call.decl.words)))
             /\ (Get(returned, "constraints") = NoneV)
                    <=> (PhrasesCut(call.decl.words) = <<>>)

ConstraintsWithoutPhraseWitness ==
    /\ ColumnParsed
    /\ call.decl.words = <<"NOT NULL", "primary \t key", "KEY">>
    /\ Get(returned, "is_primary_key").val
    /\ Get(returned, "constraints") = Str("NOT NULL  KEY")

PhraseJoinedByCut ==
    /\ ColumnParsed
    /\ call.decl.words = <<"PRIMARY", "PRIMARY KEY", "KEY">>
    /\ ConstraintsContainPhrase(Get(returned, "constraints"))

\* a column fragment of at least two pieces has been parsed
ColumnEmitted == ColumnParsed /\ call.decl.name # ""

\* C21: the type of a column is a non-empty upper-cased string that keeps
\* every character of the second whitespace-delimited piece of the fragment:
\* what is glued to the type goes into type, is not discarded and is not put
\* into constraints.
C21_TypeKeepsSecondPiece ==
    ColumnEmitted =>
        /\ Get(returned, "type").val # ""
        /\ Get(returned, "type").val = upper(call.decl.type)

\* the piece is letters and, optionally, ( ... ) with something inside
IsTypeWithParameters(piece) ==
    \/ Letters(piece) = Len(piece)
    \/ /\ Letters(piece) > 0
       /\ Ch(piece, Letters(piece) + 1) = "("
       /\ Find(piece, 1, {")"}) = Len(piece)
       /\ Len(piece) > Letters(piece) + 2

\* the same for the pieces that are a type with optional parameters, or that
\* do not begin with a letter
TypeKeepsSecondPieceWhenNothingGlued ==
    ColumnEmitted /\ (IsTypeWithParameters(call.decl.type) \/ Letters(call.decl.type) = 0) =>
        /\ Get(returned, "type").val # ""
        /\ Get(returned, "type").val = upper(call.decl.type)

\* the type is never empty and is the upper-cased start of the piece
TypeIsPrefixOfSecondPiece ==
    ColumnEmitted =>
        /\ Get(returned, "type").val # ""
        /\ Get(returned, "type").val
               = SubSeq(upper(call.decl.type), 1, Len(Get(returned, "type").val))

TypeKeepsSecondPieceWitness ==
    /\ ColumnEmitted
    /\ call.decl.type = "varchar(50)"
    /\ Get(returned, "type").val = "VARCHAR(50)"

GluedCharactersDiscarded ==
    /\ ColumnEmitted
    /\ call.arg = "a INT4 NOT NULL"
    /\ Get(returned, "type").val = "INT"
    /\ Get(returned, "constraints") = Str("NOT NULL")

\* ASTBuilder().build(raw) has been called, and has raised
Built == phase = 2
BuildFailed == phase = 2 /\ pc = "failed"

\* the entries of field key of the mapping d: none when the key is missing
EntriesOf(d, key) == IF Has(d, key) THEN Get(d, key).val ELSE <<>>

IsListOfDicts(v) == IsList(v) /\ \A n \in 1..Len(v.val) : IsDict(v.val[n])

\* raw is a mapping whose 'tables', and their 'columns' and 'foreign_keys',
\* where present, are lists of mappings
IsRecordInput(r) ==
    /\ IsDict(r)
    /\ Has(r, "tables") => IsListOfDicts(Get(r, "tables"))
    /\ \A n \in 1..Len(EntriesOf(r, "tables")) :
          LET t == EntriesOf(r, "tables")[n]
          IN /\ Has(t, "columns") => IsListOfDicts(Get(t, "columns"))
             /\ Has(t, "foreign_keys") => IsListOfDicts(Get(t, "foreign_keys"))

\* a table record lacks 'name', or one of its column entries 'name' or 'type'
LacksRequiredKey(r) ==
    \E n \in 1..Len(EntriesOf(r, "tables")) :
        LET t == EntriesOf(r, "tables")[n]
        IN \/ ~Has(t, "name")
           \/ \E c \in 1..Len(EntriesOf(t, "columns")) :
                 \/ ~Has(EntriesOf(t, "columns")[c], "name")
                 \/ ~Has(EntriesOf(t, "columns")[c], "type")

\* a foreign-key entry lacks one of its four keys
ForeignKeyLacksKey(r) ==
    \E n \in 1..Len(EntriesOf(r, "tables")) :
        LET t == EntriesOf(r, "tables")[n]
        IN \E f \in 1..Len(EntriesOf(t, "foreign_keys")) :
              \E key \in {"name", "columns", "ref_table", "ref_columns"} :
                  ~Has(EntriesOf(t, "foreign_keys")[f], key)

\* C22: ASTBuilder.build fails only when a table record lacks 'name' or a
\* column entry lacks 'name' or 'type'; for every other mapping, whatever its
\* foreign-key entries hold, it returns a Schema.
C22_BuildFailsOnlyOnNameOrType ==
    Built /\ IsRecordInput(raw) => (BuildFailed <=> LacksRequiredKey(raw))

\* the same, the keys of the foreign-key entries being required too; what is
\* raised is a KeyError
BuildFailsOnlyOnMissingKey ==
    Built /\ IsRecordInput(raw) =>
        /\ BuildFailed <=> (LacksRequiredKey(raw) \/ ForeignKeyLacksKey(raw))
        /\ BuildFailed => result.exc = "KeyError"

\* build returns a Schema for an input that validate_schema rejects
BuildReturnsWithoutValidation ==
    /\ Built
    /\ pc = "start"
    /\ IsRecordInput(raw)
    /\ IsError(first_result)
    /\ ~LacksRequiredKey(raw)

ForeignKeyEntryFailsBuild ==
    /\ BuildFailed
    /\ IsRecordInput(raw)
    /\ ~LacksRequiredKey(raw)
    /\ result.exc = "KeyError"

\* parse_sql_string has returned raw and build and schema_to_dict were called
Serialized == phase = 0 /\ pc \notin {"parse", "parsed"}

\* a raw column without the transient flag, and without a null constraints
ColumnKept(col) ==
    IF Get(col, "constraints") = NoneV
    THEN Without(Without(col, "is_primary_key"), "constraints")
    ELSE Without(col, "is_primary_key")

\* a raw table with these columns, and without an empty foreign_keys
TableKept(t) ==
    LET kept == With(t, "columns",
                     Lst([n \in 1..Len(Get(t, "columns").val) |->
                             ColumnKept(Get(t, "columns").val[n])]))
    IN IF Get(t, "foreign_keys") = Lst(<<>>) THEN Without(kept, "foreign_keys") ELSE kept

\* C23: for a raw parser record R, schema_to_dict(ASTBuilder().build(R)) has
\* the tables of R in their order, each with its name, its columns in order
\* with name and type, its primary_key and its foreign keys in order with
\* name, columns, ref_table and ref_columns; it differs from R only in that
\* is_primary_key is gone and that a null constraints and an empty
\* foreign_keys are left out.
C23_BuildAndSerializeLossless ==
    Serialized =>
        /\ pc # "failed"
        /\ schema = SchemaOf([n \in 1..Len(TablesOf(raw)) |-> TableKept(TablesOf(raw)[n])])

\* C23 witness: a record of two different tables, one of them with a foreign
\* key and one without, one with a column with constraints
C23_Witness ==
    /\ Serialized
    /\ Len(TablesOf(raw)) >= 2
    /\ TablesOf(raw)[1] # TablesOf(raw)[2]
    /\ \E n \in 1..Len(TablesOf(raw)) : Get(TablesOf(raw)[n], "foreign_keys") # Lst(<<>>)
    /\ \E n \in 1..Len(TablesOf(raw)) :
          /\ Get(TablesOf(raw)[n], "foreign_keys") = Lst(<<>>)
          /\ ~Has(TablesOf(schema)[n], "foreign_keys")
    /\ \E n \in 1..Len(TablesOf(raw)) : \E c \in 1..Len(Get(TablesOf(raw)[n], "columns").val) :
          /\ Get(Get(TablesOf(raw)[n], "columns").val[c], "constraints") # NoneV
          /\ Get(TablesOf(schema)[n], "columns").val[c]
                = Without(Get(TablesOf(raw)[n], "columns").val[c], "is_primary_key")

\* the names of the columns of a Table
NamesOfColumns(table) == {table.columns[n].name : n \in 1..Len(table.columns)}

\* the Table satisfies the data model
MeetsDataModel(table) ==
    /\ NonEmptyStr(table.name)
    /\ Len(table.columns) >= 1
    /\ \A n \in 1..Len(table.columns) : NonEmptyStr(table.columns[n].name)
    /\ \A m, n \in 1..Len(table.columns) :
          m # n => table.columns[m].name # table.columns[n].name
    /\ \A n \in 1..Len(table.primary_key.val) :
          table.primary_key.val[n] \in NamesOfColumns(table)

\* C24: every Table that parse_sql_string followed by ASTBuilder.build gives
\* has a non-empty name, a non-empty list of columns with non-empty names that
\* are unique within the table, and a primary_key whose entries are names of
\* its columns.
C24_ParsedTablesMeetDataModel ==
    Serialized =>
        /\ pc # "failed"
        /\ \A table \in Range(build(raw).value.tables) : MeetsDataModel(table)

\* the statement declares a table of at least one column, the column names
\* unique and the primary key among them
DeclaresSoundTable(d) ==
    /\ Len(DeclaredColumns(d)) >= 1
    /\ \A m, n \in 1..Len(DeclaredColumns(d)) :
          m # n => DeclaredColumns(d)[m].name # DeclaredColumns(d)[n].name
    /\ Range(DeclaredPrimaryKey(d)) \subseteq DeclaredColumnNames(d)

\* the same for the scripts whose CREATE TABLE statements declare such tables,
\* with no column name that starts with CONSTRAINT
SoundPlainTablesMeetDataModel ==
    /\ Serialized
    /\ PlainColumnNames(statements)
    /\ \A i \in 1..Len(statements) :
          DeclaresTable(statements[i]) => DeclaresSoundTable(statements[i].decl)
    => /\ pc # "failed"
       /\ \A table \in Range(build(raw).value.tables) : MeetsDataModel(table)

SoundPlainTablesWitness ==
    /\ Serialized
    /\ PlainColumnNames(statements)
    /\ \A i \in 1..Len(statements) :
          DeclaresTable(statements[i]) => DeclaresSoundTable(statements[i].decl)
    /\ Len(build(raw).value.tables) = 2
    /\ \A table \in Range(build(raw).value.tables) : MeetsDataModel(table)

\* a Table without columns whose primary key names a column
TableWithoutColumnsBuilt ==
    /\ Serialized
    /\ \E table \in Range(build(raw).value.tables) :
          Len(table.columns) = 0 /\ Len(table.primary_key.val) > 0

\* raw has been validated, and then raw with its tables in another order
ReorderedValidated == phase = 4 /\ Done

\* every table of s is a mapping with a string as name, the names differing
PairwiseDistinctNames(s) ==
    /\ \A t \in Range(TablesOf(s)) : IsDict(t) /\ Has(t, "name") /\ IsStr(Get(t, "name"))
    /\ DistinctTableNames(s)

\* C25: acceptance does not depend on the order of the tables: for a schema
\* with pairwise distinct table names and every reordering of its 'tables'
\* list, validate_schema returns True on the reordered schema exactly when it
\* returns True on the original; a foreign key may reference a table that
\* comes later in the list, or its own table.
C25_AcceptanceIgnoresTableOrder ==
    ReorderedValidated /\ DistinctTableNames(raw) =>
        (result.ret = "True" <=> first_result.ret = "True")

\* C25 witness: a schema whose first table references the second is accepted,
\* and so is the schema with the two tables exchanged
C25_Witness ==
    /\ ReorderedValidated
    /\ PairwiseDistinctNames(raw)
    /\ first_result.ret = "True"
    /\ result.ret = "True"
    /\ \E f \in Range(ForeignKeysOf(TablesOf(raw)[1])) :
          Get(f, "ref_table") = Get(TablesOf(raw)[2], "name")
    /\ TablesOf(schema)[1] = TablesOf(raw)[2]

\* a foreign key that references its own table is accepted in both orders
SelfReferenceAccepted ==
    /\ ReorderedValidated
    /\ PairwiseDistinctNames(raw)
    /\ first_result.ret = "True"
    /\ result.ret = "True"
    /\ \E t \in Range(TablesOf(raw)) : \E f \in Range(ForeignKeysOf(t)) :
          Get(f, "ref_table") = Get(t, "name")

\* with two tables of one name the order decides
OrderDecidesForEqualNames ==
    /\ ReorderedValidated
    /\ ~DistinctTableNames(raw)
    /\ (result.ret = "True") # (first_result.ret = "True")
====
